---- MODULE Spec2Model ----
(***************************************************************************)
(* Model of the Medical-Research-Agent engine (src/src/medical-core.ts,    *)
(* src/src/medical-cli.ts and the superseded variants medical-research.ts  *)
(* and medical-research-fixed.ts).                                         *)
(*                                                                         *)
(* Strings are sequences of UTF-16 code units, each a one-character string *)
(* (a code unit above U+00FF, a control character without an escape and    *)
(* the grave accent are the string naming the code unit, as in "U+0178";   *)
(* a character outside the Basic Multilingual Plane is its two             *)
(* surrogates), so that trim, toUpperCase, toLowerCase, split, substring   *)
(* and includes are computed the way the JavaScript runtime computes them. *)
(* A score or confidence written in the source or returned by the language *)
(* model is an integer number of hundredths (0.4 is 40); see Numbers for   *)
(* the results of arithmetic.                                              *)
(***************************************************************************)
EXTENDS Integers, Sequences, FiniteSets, TLC

(***************************************************************************)
(* String helpers (JavaScript String.prototype methods)                    *)
(***************************************************************************)
\* Case tables (Unicode 17).  LowerChars[i] and UpperChars[i] are the two
\* forms of a letter of the Basic Multilingual Plane whose upper-case and
\* lower-case forms are one code unit each and lead back to each other
LowerChars ==
  <<"a", "b", "c", "d", "e", "f", "g", "h", "i", "j", "k", "l", "m", "n", "o",
    "p", "q", "r", "s", "t", "u", "v", "w", "x", "y", "z", "à", "á", "â", "ã",
    "ä", "å", "æ", "ç", "è", "é", "ê", "ë", "ì", "í", "î", "ï", "ð", "ñ", "ò",
    "ó", "ô", "õ", "ö", "ø", "ù", "ú", "û", "ü", "ý", "þ", "ÿ", "U+0101",
    "U+0103", "U+0105", "U+0107", "U+0109", "U+010B", "U+010D", "U+010F",
    "U+0111", "U+0113", "U+0115", "U+0117", "U+0119", "U+011B", "U+011D",
    "U+011F", "U+0121", "U+0123", "U+0125", "U+0127", "U+0129", "U+012B",
    "U+012D", "U+012F", "U+0133", "U+0135", "U+0137", "U+013A", "U+013C",
    "U+013E", "U+0140", "U+0142", "U+0144", "U+0146", "U+0148", "U+014B",
    "U+014D", "U+014F", "U+0151", "U+0153", "U+0155", "U+0157", "U+0159",
    "U+015B", "U+015D", "U+015F", "U+0161", "U+0163", "U+0165", "U+0167",
    "U+0169", "U+016B", "U+016D", "U+016F", "U+0171", "U+0173", "U+0175",
    "U+0177", "U+017A", "U+017C", "U+017E", "U+0180", "U+0183", "U+0185",
    "U+0188", "U+018C", "U+0192", "U+0195", "U+0199", "U+019A", "U+019B",
    "U+019E", "U+01A1", "U+01A3", "U+01A5", "U+01A8", "U+01AD", "U+01B0",
    "U+01B4", "U+01B6", "U+01B9", "U+01BD", "U+01BF", "U+01C6", "U+01C9",
    "U+01CC", "U+01CE", "U+01D0", "U+01D2", "U+01D4", "U+01D6", "U+01D8",
    "U+01DA", "U+01DC", "U+01DD", "U+01DF", "U+01E1", "U+01E3", "U+01E5",
    "U+01E7", "U+01E9", "U+01EB", "U+01ED", "U+01EF", "U+01F3", "U+01F5",
    "U+01F9", "U+01FB", "U+01FD", "U+01FF", "U+0201", "U+0203", "U+0205",
    "U+0207", "U+0209", "U+020B", "U+020D", "U+020F", "U+0211", "U+0213",
    "U+0215", "U+0217", "U+0219", "U+021B", "U+021D", "U+021F", "U+0223",
    "U+0225", "U+0227", "U+0229", "U+022B", "U+022D", "U+022F", "U+0231",
    "U+0233", "U+023C", "U+023F", "U+0240", "U+0242", "U+0247", "U+0249",
    "U+024B", "U+024D", "U+024F", "U+0250", "U+0251", "U+0252", "U+0253",
    "U+0254", "U+0256", "U+0257", "U+0259", "U+025B", "U+025C", "U+0260",
    "U+0261", "U+0263", "U+0264", "U+0265", "U+0266", "U+0268", "U+0269",
    "U+026A", "U+026B", "U+026C", "U+026F", "U+0271", "U+0272", "U+0275",
    "U+027D", "U+0280", "U+0282", "U+0283", "U+0287", "U+0288", "U+0289",
    "U+028A", "U+028B", "U+028C", "U+0292", "U+029D", "U+029E", "U+0371",
    "U+0373", "U+0377", "U+037B", "U+037C", "U+037D", "U+03AC", "U+03AD",
    "U+03AE", "U+03AF", "U+03B1", "U+03B2", "U+03B3", "U+03B4", "U+03B5",
    "U+03B6", "U+03B7", "U+03B8", "U+03B9", "U+03BA", "U+03BB", "U+03BC",
    "U+03BD", "U+03BE", "U+03BF", "U+03C0", "U+03C1", "U+03C3", "U+03C4",
    "U+03C5", "U+03C6", "U+03C7", "U+03C8", "U+03C9", "U+03CA", "U+03CB",
    "U+03CC", "U+03CD", "U+03CE", "U+03D7", "U+03D9", "U+03DB", "U+03DD",
    "U+03DF", "U+03E1", "U+03E3", "U+03E5", "U+03E7", "U+03E9", "U+03EB",
    "U+03ED", "U+03EF", "U+03F2", "U+03F3", "U+03F8", "U+03FB", "U+0430",
    "U+0431", "U+0432", "U+0433", "U+0434", "U+0435", "U+0436", "U+0437",
    "U+0438", "U+0439", "U+043A", "U+043B", "U+043C", "U+043D", "U+043E",
    "U+043F", "U+0440", "U+0441", "U+0442", "U+0443", "U+0444", "U+0445",
    "U+0446", "U+0447", "U+0448", "U+0449", "U+044A", "U+044B", "U+044C",
    "U+044D", "U+044E", "U+044F", "U+0450", "U+0451", "U+0452", "U+0453",
    "U+0454", "U+0455", "U+0456", "U+0457", "U+0458", "U+0459", "U+045A",
    "U+045B", "U+045C", "U+045D", "U+045E", "U+045F", "U+0461", "U+0463",
    "U+0465", "U+0467", "U+0469", "U+046B", "U+046D", "U+046F", "U+0471",
    "U+0473", "U+0475", "U+0477", "U+0479", "U+047B", "U+047D", "U+047F",
    "U+0481", "U+048B", "U+048D", "U+048F", "U+0491", "U+0493", "U+0495",
    "U+0497", "U+0499", "U+049B", "U+049D", "U+049F", "U+04A1", "U+04A3",
    "U+04A5", "U+04A7", "U+04A9", "U+04AB", "U+04AD", "U+04AF", "U+04B1",
    "U+04B3", "U+04B5", "U+04B7", "U+04B9", "U+04BB", "U+04BD", "U+04BF",
    "U+04C2", "U+04C4", "U+04C6", "U+04C8", "U+04CA", "U+04CC", "U+04CE",
    "U+04CF", "U+04D1", "U+04D3", "U+04D5", "U+04D7", "U+04D9", "U+04DB",
    "U+04DD", "U+04DF", "U+04E1", "U+04E3", "U+04E5", "U+04E7", "U+04E9",
    "U+04EB", "U+04ED", "U+04EF", "U+04F1", "U+04F3", "U+04F5", "U+04F7",
    "U+04F9", "U+04FB", "U+04FD", "U+04FF", "U+0501", "U+0503", "U+0505",
    "U+0507", "U+0509", "U+050B", "U+050D", "U+050F", "U+0511", "U+0513",
    "U+0515", "U+0517", "U+0519", "U+051B", "U+051D", "U+051F", "U+0521",
    "U+0523", "U+0525", "U+0527", "U+0529", "U+052B", "U+052D", "U+052F",
    "U+0561", "U+0562", "U+0563", "U+0564", "U+0565", "U+0566", "U+0567",
    "U+0568", "U+0569", "U+056A", "U+056B", "U+056C", "U+056D", "U+056E",
    "U+056F", "U+0570", "U+0571", "U+0572", "U+0573", "U+0574", "U+0575",
    "U+0576", "U+0577", "U+0578", "U+0579", "U+057A", "U+057B", "U+057C",
    "U+057D", "U+057E", "U+057F", "U+0580", "U+0581", "U+0582", "U+0583",
    "U+0584", "U+0585", "U+0586", "U+10D0", "U+10D1", "U+10D2", "U+10D3",
    "U+10D4", "U+10D5", "U+10D6", "U+10D7", "U+10D8", "U+10D9", "U+10DA",
    "U+10DB", "U+10DC", "U+10DD", "U+10DE", "U+10DF", "U+10E0", "U+10E1",
    "U+10E2", "U+10E3", "U+10E4", "U+10E5", "U+10E6", "U+10E7", "U+10E8",
    "U+10E9", "U+10EA", "U+10EB", "U+10EC", "U+10ED", "U+10EE", "U+10EF",
    "U+10F0", "U+10F1", "U+10F2", "U+10F3", "U+10F4", "U+10F5", "U+10F6",
    "U+10F7", "U+10F8", "U+10F9", "U+10FA", "U+10FD", "U+10FE", "U+10FF",
    "U+13F8", "U+13F9", "U+13FA", "U+13FB", "U+13FC", "U+13FD", "U+1C8A",
    "U+1D79", "U+1D7D", "U+1D8E", "U+1E01", "U+1E03", "U+1E05", "U+1E07",
    "U+1E09", "U+1E0B", "U+1E0D", "U+1E0F", "U+1E11", "U+1E13", "U+1E15",
    "U+1E17", "U+1E19", "U+1E1B", "U+1E1D", "U+1E1F", "U+1E21", "U+1E23",
    "U+1E25", "U+1E27", "U+1E29", "U+1E2B", "U+1E2D", "U+1E2F", "U+1E31",
    "U+1E33", "U+1E35", "U+1E37", "U+1E39", "U+1E3B", "U+1E3D", "U+1E3F",
    "U+1E41", "U+1E43", "U+1E45", "U+1E47", "U+1E49", "U+1E4B", "U+1E4D",
    "U+1E4F", "U+1E51", "U+1E53", "U+1E55", "U+1E57", "U+1E59", "U+1E5B",
    "U+1E5D", "U+1E5F", "U+1E61", "U+1E63", "U+1E65", "U+1E67", "U+1E69",
    "U+1E6B", "U+1E6D", "U+1E6F", "U+1E71", "U+1E73", "U+1E75", "U+1E77",
    "U+1E79", "U+1E7B", "U+1E7D", "U+1E7F", "U+1E81", "U+1E83", "U+1E85",
    "U+1E87", "U+1E89", "U+1E8B", "U+1E8D", "U+1E8F", "U+1E91", "U+1E93",
    "U+1E95", "U+1EA1", "U+1EA3", "U+1EA5", "U+1EA7", "U+1EA9", "U+1EAB",
    "U+1EAD", "U+1EAF", "U+1EB1", "U+1EB3", "U+1EB5", "U+1EB7", "U+1EB9",
    "U+1EBB", "U+1EBD", "U+1EBF", "U+1EC1", "U+1EC3", "U+1EC5", "U+1EC7",
    "U+1EC9", "U+1ECB", "U+1ECD", "U+1ECF", "U+1ED1", "U+1ED3", "U+1ED5",
    "U+1ED7", "U+1ED9", "U+1EDB", "U+1EDD", "U+1EDF", "U+1EE1", "U+1EE3",
    "U+1EE5", "U+1EE7", "U+1EE9", "U+1EEB", "U+1EED", "U+1EEF", "U+1EF1",
    "U+1EF3", "U+1EF5", "U+1EF7", "U+1EF9", "U+1EFB", "U+1EFD", "U+1EFF",
    "U+1F00", "U+1F01", "U+1F02", "U+1F03", "U+1F04", "U+1F05", "U+1F06",
    "U+1F07", "U+1F10", "U+1F11", "U+1F12", "U+1F13", "U+1F14", "U+1F15",
    "U+1F20", "U+1F21", "U+1F22", "U+1F23", "U+1F24", "U+1F25", "U+1F26",
    "U+1F27", "U+1F30", "U+1F31", "U+1F32", "U+1F33", "U+1F34", "U+1F35",
    "U+1F36", "U+1F37", "U+1F40", "U+1F41", "U+1F42", "U+1F43", "U+1F44",
    "U+1F45", "U+1F51", "U+1F53", "U+1F55", "U+1F57", "U+1F60", "U+1F61",
    "U+1F62", "U+1F63", "U+1F64", "U+1F65", "U+1F66", "U+1F67", "U+1F70",
    "U+1F71", "U+1F72", "U+1F73", "U+1F74", "U+1F75", "U+1F76", "U+1F77",
    "U+1F78", "U+1F79", "U+1F7A", "U+1F7B", "U+1F7C", "U+1F7D", "U+1FB0",
    "U+1FB1", "U+1FD0", "U+1FD1", "U+1FE0", "U+1FE1", "U+1FE5", "U+214E",
    "U+2170", "U+2171", "U+2172", "U+2173", "U+2174", "U+2175", "U+2176",
    "U+2177", "U+2178", "U+2179", "U+217A", "U+217B", "U+217C", "U+217D",
    "U+217E", "U+217F", "U+2184", "U+24D0", "U+24D1", "U+24D2", "U+24D3",
    "U+24D4", "U+24D5", "U+24D6", "U+24D7", "U+24D8", "U+24D9", "U+24DA",
    "U+24DB", "U+24DC", "U+24DD", "U+24DE", "U+24DF", "U+24E0", "U+24E1",
    "U+24E2", "U+24E3", "U+24E4", "U+24E5", "U+24E6", "U+24E7", "U+24E8",
    "U+24E9", "U+2C30", "U+2C31", "U+2C32", "U+2C33", "U+2C34", "U+2C35",
    "U+2C36", "U+2C37", "U+2C38", "U+2C39", "U+2C3A", "U+2C3B", "U+2C3C",
    "U+2C3D", "U+2C3E", "U+2C3F", "U+2C40", "U+2C41", "U+2C42", "U+2C43",
    "U+2C44", "U+2C45", "U+2C46", "U+2C47", "U+2C48", "U+2C49", "U+2C4A",
    "U+2C4B", "U+2C4C", "U+2C4D", "U+2C4E", "U+2C4F", "U+2C50", "U+2C51",
    "U+2C52", "U+2C53", "U+2C54", "U+2C55", "U+2C56", "U+2C57", "U+2C58",
    "U+2C59", "U+2C5A", "U+2C5B", "U+2C5C", "U+2C5D", "U+2C5E", "U+2C5F",
    "U+2C61", "U+2C65", "U+2C66", "U+2C68", "U+2C6A", "U+2C6C", "U+2C73",
    "U+2C76", "U+2C81", "U+2C83", "U+2C85", "U+2C87", "U+2C89", "U+2C8B",
    "U+2C8D", "U+2C8F", "U+2C91", "U+2C93", "U+2C95", "U+2C97", "U+2C99",
    "U+2C9B", "U+2C9D", "U+2C9F", "U+2CA1", "U+2CA3", "U+2CA5", "U+2CA7",
    "U+2CA9", "U+2CAB", "U+2CAD", "U+2CAF", "U+2CB1", "U+2CB3", "U+2CB5",
    "U+2CB7", "U+2CB9", "U+2CBB", "U+2CBD", "U+2CBF", "U+2CC1", "U+2CC3",
    "U+2CC5", "U+2CC7", "U+2CC9", "U+2CCB", "U+2CCD", "U+2CCF", "U+2CD1",
    "U+2CD3", "U+2CD5", "U+2CD7", "U+2CD9", "U+2CDB", "U+2CDD", "U+2CDF",
    "U+2CE1", "U+2CE3", "U+2CEC", "U+2CEE", "U+2CF3", "U+2D00", "U+2D01",
    "U+2D02", "U+2D03", "U+2D04", "U+2D05", "U+2D06", "U+2D07", "U+2D08",
    "U+2D09", "U+2D0A", "U+2D0B", "U+2D0C", "U+2D0D", "U+2D0E", "U+2D0F",
    "U+2D10", "U+2D11", "U+2D12", "U+2D13", "U+2D14", "U+2D15", "U+2D16",
    "U+2D17", "U+2D18", "U+2D19", "U+2D1A", "U+2D1B", "U+2D1C", "U+2D1D",
    "U+2D1E", "U+2D1F", "U+2D20", "U+2D21", "U+2D22", "U+2D23", "U+2D24",
    "U+2D25", "U+2D27", "U+2D2D", "U+A641", "U+A643", "U+A645", "U+A647",
    "U+A649", "U+A64B", "U+A64D", "U+A64F", "U+A651", "U+A653", "U+A655",
    "U+A657", "U+A659", "U+A65B", "U+A65D", "U+A65F", "U+A661", "U+A663",
    "U+A665", "U+A667", "U+A669", "U+A66B", "U+A66D", "U+A681", "U+A683",
    "U+A685", "U+A687", "U+A689", "U+A68B", "U+A68D", "U+A68F", "U+A691",
    "U+A693", "U+A695", "U+A697", "U+A699", "U+A69B", "U+A723", "U+A725",
    "U+A727", "U+A729", "U+A72B", "U+A72D", "U+A72F", "U+A733", "U+A735",
    "U+A737", "U+A739", "U+A73B", "U+A73D", "U+A73F", "U+A741", "U+A743",
    "U+A745", "U+A747", "U+A749", "U+A74B", "U+A74D", "U+A74F", "U+A751",
    "U+A753", "U+A755", "U+A757", "U+A759", "U+A75B", "U+A75D", "U+A75F",
    "U+A761", "U+A763", "U+A765", "U+A767", "U+A769", "U+A76B", "U+A76D",
    "U+A76F", "U+A77A", "U+A77C", "U+A77F", "U+A781", "U+A783", "U+A785",
    "U+A787", "U+A78C", "U+A791", "U+A793", "U+A794", "U+A797", "U+A799",
    "U+A79B", "U+A79D", "U+A79F", "U+A7A1", "U+A7A3", "U+A7A5", "U+A7A7",
    "U+A7A9", "U+A7B5", "U+A7B7", "U+A7B9", "U+A7BB", "U+A7BD", "U+A7BF",
    "U+A7C1", "U+A7C3", "U+A7C8", "U+A7CA", "U+A7CD", "U+A7CF", "U+A7D1",
    "U+A7D3", "U+A7D5", "U+A7D7", "U+A7D9", "U+A7DB", "U+A7F6", "U+AB53",
    "U+AB70", "U+AB71", "U+AB72", "U+AB73", "U+AB74", "U+AB75", "U+AB76",
    "U+AB77", "U+AB78", "U+AB79", "U+AB7A", "U+AB7B", "U+AB7C", "U+AB7D",
    "U+AB7E", "U+AB7F", "U+AB80", "U+AB81", "U+AB82", "U+AB83", "U+AB84",
    "U+AB85", "U+AB86", "U+AB87", "U+AB88", "U+AB89", "U+AB8A", "U+AB8B",
    "U+AB8C", "U+AB8D", "U+AB8E", "U+AB8F", "U+AB90", "U+AB91", "U+AB92",
    "U+AB93", "U+AB94", "U+AB95", "U+AB96", "U+AB97", "U+AB98", "U+AB99",
    "U+AB9A", "U+AB9B", "U+AB9C", "U+AB9D", "U+AB9E", "U+AB9F", "U+ABA0",
    "U+ABA1", "U+ABA2", "U+ABA3", "U+ABA4", "U+ABA5", "U+ABA6", "U+ABA7",
    "U+ABA8", "U+ABA9", "U+ABAA", "U+ABAB", "U+ABAC", "U+ABAD", "U+ABAE",
    "U+ABAF", "U+ABB0", "U+ABB1", "U+ABB2", "U+ABB3", "U+ABB4", "U+ABB5",
    "U+ABB6", "U+ABB7", "U+ABB8", "U+ABB9", "U+ABBA", "U+ABBB", "U+ABBC",
    "U+ABBD", "U+ABBE", "U+ABBF", "U+FF41", "U+FF42", "U+FF43", "U+FF44",
    "U+FF45", "U+FF46", "U+FF47", "U+FF48", "U+FF49", "U+FF4A", "U+FF4B",
    "U+FF4C", "U+FF4D", "U+FF4E", "U+FF4F", "U+FF50", "U+FF51", "U+FF52",
    "U+FF53", "U+FF54", "U+FF55", "U+FF56", "U+FF57", "U+FF58", "U+FF59",
    "U+FF5A">>

UpperChars ==
  <<"A", "B", "C", "D", "E", "F", "G", "H", "I", "J", "K", "L", "M", "N", "O",
    "P", "Q", "R", "S", "T", "U", "V", "W", "X", "Y", "Z", "À", "Á", "Â", "Ã",
    "Ä", "Å", "Æ", "Ç", "È", "É", "Ê", "Ë", "Ì", "Í", "Î", "Ï", "Ð", "Ñ", "Ò",
    "Ó", "Ô", "Õ", "Ö", "Ø", "Ù", "Ú", "Û", "Ü", "Ý", "Þ", "U+0178", "U+0100",
    "U+0102", "U+0104", "U+0106", "U+0108", "U+010A", "U+010C", "U+010E",
    "U+0110", "U+0112", "U+0114", "U+0116", "U+0118", "U+011A", "U+011C",
    "U+011E", "U+0120", "U+0122", "U+0124", "U+0126", "U+0128", "U+012A",
    "U+012C", "U+012E", "U+0132", "U+0134", "U+0136", "U+0139", "U+013B",
    "U+013D", "U+013F", "U+0141", "U+0143", "U+0145", "U+0147", "U+014A",
    "U+014C", "U+014E", "U+0150", "U+0152", "U+0154", "U+0156", "U+0158",
    "U+015A", "U+015C", "U+015E", "U+0160", "U+0162", "U+0164", "U+0166",
    "U+0168", "U+016A", "U+016C", "U+016E", "U+0170", "U+0172", "U+0174",
    "U+0176", "U+0179", "U+017B", "U+017D", "U+0243", "U+0182", "U+0184",
    "U+0187", "U+018B", "U+0191", "U+01F6", "U+0198", "U+023D", "U+A7DC",
    "U+0220", "U+01A0", "U+01A2", "U+01A4", "U+01A7", "U+01AC", "U+01AF",
    "U+01B3", "U+01B5", "U+01B8", "U+01BC", "U+01F7", "U+01C4", "U+01C7",
    "U+01CA", "U+01CD", "U+01CF", "U+01D1", "U+01D3", "U+01D5", "U+01D7",
    "U+01D9", "U+01DB", "U+018E", "U+01DE", "U+01E0", "U+01E2", "U+01E4",
    "U+01E6", "U+01E8", "U+01EA", "U+01EC", "U+01EE", "U+01F1", "U+01F4",
    "U+01F8", "U+01FA", "U+01FC", "U+01FE", "U+0200", "U+0202", "U+0204",
    "U+0206", "U+0208", "U+020A", "U+020C", "U+020E", "U+0210", "U+0212",
    "U+0214", "U+0216", "U+0218", "U+021A", "U+021C", "U+021E", "U+0222",
    "U+0224", "U+0226", "U+0228", "U+022A", "U+022C", "U+022E", "U+0230",
    "U+0232", "U+023B", "U+2C7E", "U+2C7F", "U+0241", "U+0246", "U+0248",
    "U+024A", "U+024C", "U+024E", "U+2C6F", "U+2C6D", "U+2C70", "U+0181",
    "U+0186", "U+0189", "U+018A", "U+018F", "U+0190", "U+A7AB", "U+0193",
    "U+A7AC", "U+0194", "U+A7CB", "U+A78D", "U+A7AA", "U+0197", "U+0196",
    "U+A7AE", "U+2C62", "U+A7AD", "U+019C", "U+2C6E", "U+019D", "U+019F",
    "U+2C64", "U+01A6", "U+A7C5", "U+01A9", "U+A7B1", "U+01AE", "U+0244",
    "U+01B1", "U+01B2", "U+0245", "U+01B7", "U+A7B2", "U+A7B0", "U+0370",
    "U+0372", "U+0376", "U+03FD", "U+03FE", "U+03FF", "U+0386", "U+0388",
    "U+0389", "U+038A", "U+0391", "U+0392", "U+0393", "U+0394", "U+0395",
    "U+0396", "U+0397", "U+0398", "U+0399", "U+039A", "U+039B", "U+039C",
    "U+039D", "U+039E", "U+039F", "U+03A0", "U+03A1", "U+03A3", "U+03A4",
    "U+03A5", "U+03A6", "U+03A7", "U+03A8", "U+03A9", "U+03AA", "U+03AB",
    "U+038C", "U+038E", "U+038F", "U+03CF", "U+03D8", "U+03DA", "U+03DC",
    "U+03DE", "U+03E0", "U+03E2", "U+03E4", "U+03E6", "U+03E8", "U+03EA",
    "U+03EC", "U+03EE", "U+03F9", "U+037F", "U+03F7", "U+03FA", "U+0410",
    "U+0411", "U+0412", "U+0413", "U+0414", "U+0415", "U+0416", "U+0417",
    "U+0418", "U+0419", "U+041A", "U+041B", "U+041C", "U+041D", "U+041E",
    "U+041F", "U+0420", "U+0421", "U+0422", "U+0423", "U+0424", "U+0425",
    "U+0426", "U+0427", "U+0428", "U+0429", "U+042A", "U+042B", "U+042C",
    "U+042D", "U+042E", "U+042F", "U+0400", "U+0401", "U+0402", "U+0403",
    "U+0404", "U+0405", "U+0406", "U+0407", "U+0408", "U+0409", "U+040A",
    "U+040B", "U+040C", "U+040D", "U+040E", "U+040F", "U+0460", "U+0462",
    "U+0464", "U+0466", "U+0468", "U+046A", "U+046C", "U+046E", "U+0470",
    "U+0472", "U+0474", "U+0476", "U+0478", "U+047A", "U+047C", "U+047E",
    "U+0480", "U+048A", "U+048C", "U+048E", "U+0490", "U+0492", "U+0494",
    "U+0496", "U+0498", "U+049A", "U+049C", "U+049E", "U+04A0", "U+04A2",
    "U+04A4", "U+04A6", "U+04A8", "U+04AA", "U+04AC", "U+04AE", "U+04B0",
    "U+04B2", "U+04B4", "U+04B6", "U+04B8", "U+04BA", "U+04BC", "U+04BE",
    "U+04C1", "U+04C3", "U+04C5", "U+04C7", "U+04C9", "U+04CB", "U+04CD",
    "U+04C0", "U+04D0", "U+04D2", "U+04D4", "U+04D6", "U+04D8", "U+04DA",
    "U+04DC", "U+04DE", "U+04E0", "U+04E2", "U+04E4", "U+04E6", "U+04E8",
    "U+04EA", "U+04EC", "U+04EE", "U+04F0", "U+04F2", "U+04F4", "U+04F6",
    "U+04F8", "U+04FA", "U+04FC", "U+04FE", "U+0500", "U+0502", "U+0504",
    "U+0506", "U+0508", "U+050A", "U+050C", "U+050E", "U+0510", "U+0512",
    "U+0514", "U+0516", "U+0518", "U+051A", "U+051C", "U+051E", "U+0520",
    "U+0522", "U+0524", "U+0526", "U+0528", "U+052A", "U+052C", "U+052E",
    "U+0531", "U+0532", "U+0533", "U+0534", "U+0535", "U+0536", "U+0537",
    "U+0538", "U+0539", "U+053A", "U+053B", "U+053C", "U+053D", "U+053E",
    "U+053F", "U+0540", "U+0541", "U+0542", "U+0543", "U+0544", "U+0545",
    "U+0546", "U+0547", "U+0548", "U+0549", "U+054A", "U+054B", "U+054C",
    "U+054D", "U+054E", "U+054F", "U+0550", "U+0551", "U+0552", "U+0553",
    "U+0554", "U+0555", "U+0556", "U+1C90", "U+1C91", "U+1C92", "U+1C93",
    "U+1C94", "U+1C95", "U+1C96", "U+1C97", "U+1C98", "U+1C99", "U+1C9A",
    "U+1C9B", "U+1C9C", "U+1C9D", "U+1C9E", "U+1C9F", "U+1CA0", "U+1CA1",
    "U+1CA2", "U+1CA3", "U+1CA4", "U+1CA5", "U+1CA6", "U+1CA7", "U+1CA8",
    "U+1CA9", "U+1CAA", "U+1CAB", "U+1CAC", "U+1CAD", "U+1CAE", "U+1CAF",
    "U+1CB0", "U+1CB1", "U+1CB2", "U+1CB3", "U+1CB4", "U+1CB5", "U+1CB6",
    "U+1CB7", "U+1CB8", "U+1CB9", "U+1CBA", "U+1CBD", "U+1CBE", "U+1CBF",
    "U+13F0", "U+13F1", "U+13F2", "U+13F3", "U+13F4", "U+13F5", "U+1C89",
    "U+A77D", "U+2C63", "U+A7C6", "U+1E00", "U+1E02", "U+1E04", "U+1E06",
    "U+1E08", "U+1E0A", "U+1E0C", "U+1E0E", "U+1E10", "U+1E12", "U+1E14",
    "U+1E16", "U+1E18", "U+1E1A", "U+1E1C", "U+1E1E", "U+1E20", "U+1E22",
    "U+1E24", "U+1E26", "U+1E28", "U+1E2A", "U+1E2C", "U+1E2E", "U+1E30",
    "U+1E32", "U+1E34", "U+1E36", "U+1E38", "U+1E3A", "U+1E3C", "U+1E3E",
    "U+1E40", "U+1E42", "U+1E44", "U+1E46", "U+1E48", "U+1E4A", "U+1E4C",
    "U+1E4E", "U+1E50", "U+1E52", "U+1E54", "U+1E56", "U+1E58", "U+1E5A",
    "U+1E5C", "U+1E5E", "U+1E60", "U+1E62", "U+1E64", "U+1E66", "U+1E68",
    "U+1E6A", "U+1E6C", "U+1E6E", "U+1E70", "U+1E72", "U+1E74", "U+1E76",
    "U+1E78", "U+1E7A", "U+1E7C", "U+1E7E", "U+1E80", "U+1E82", "U+1E84",
    "U+1E86", "U+1E88", "U+1E8A", "U+1E8C", "U+1E8E", "U+1E90", "U+1E92",
    "U+1E94", "U+1EA0", "U+1EA2", "U+1EA4", "U+1EA6", "U+1EA8", "U+1EAA",
    "U+1EAC", "U+1EAE", "U+1EB0", "U+1EB2", "U+1EB4", "U+1EB6", "U+1EB8",
    "U+1EBA", "U+1EBC", "U+1EBE", "U+1EC0", "U+1EC2", "U+1EC4", "U+1EC6",
    "U+1EC8", "U+1ECA", "U+1ECC", "U+1ECE", "U+1ED0", "U+1ED2", "U+1ED4",
    "U+1ED6", "U+1ED8", "U+1EDA", "U+1EDC", "U+1EDE", "U+1EE0", "U+1EE2",
    "U+1EE4", "U+1EE6", "U+1EE8", "U+1EEA", "U+1EEC", "U+1EEE", "U+1EF0",
    "U+1EF2", "U+1EF4", "U+1EF6", "U+1EF8", "U+1EFA", "U+1EFC", "U+1EFE",
    "U+1F08", "U+1F09", "U+1F0A", "U+1F0B", "U+1F0C", "U+1F0D", "U+1F0E",
    "U+1F0F", "U+1F18", "U+1F19", "U+1F1A", "U+1F1B", "U+1F1C", "U+1F1D",
    "U+1F28", "U+1F29", "U+1F2A", "U+1F2B", "U+1F2C", "U+1F2D", "U+1F2E",
    "U+1F2F", "U+1F38", "U+1F39", "U+1F3A", "U+1F3B", "U+1F3C", "U+1F3D",
    "U+1F3E", "U+1F3F", "U+1F48", "U+1F49", "U+1F4A", "U+1F4B", "U+1F4C",
    "U+1F4D", "U+1F59", "U+1F5B", "U+1F5D", "U+1F5F", "U+1F68", "U+1F69",
    "U+1F6A", "U+1F6B", "U+1F6C", "U+1F6D", "U+1F6E", "U+1F6F", "U+1FBA",
    "U+1FBB", "U+1FC8", "U+1FC9", "U+1FCA", "U+1FCB", "U+1FDA", "U+1FDB",
    "U+1FF8", "U+1FF9", "U+1FEA", "U+1FEB", "U+1FFA", "U+1FFB", "U+1FB8",
    "U+1FB9", "U+1FD8", "U+1FD9", "U+1FE8", "U+1FE9", "U+1FEC", "U+2132",
    "U+2160", "U+2161", "U+2162", "U+2163", "U+2164", "U+2165", "U+2166",
    "U+2167", "U+2168", "U+2169", "U+216A", "U+216B", "U+216C", "U+216D",
    "U+216E", "U+216F", "U+2183", "U+24B6", "U+24B7", "U+24B8", "U+24B9",
    "U+24BA", "U+24BB", "U+24BC", "U+24BD", "U+24BE", "U+24BF", "U+24C0",
    "U+24C1", "U+24C2", "U+24C3", "U+24C4", "U+24C5", "U+24C6", "U+24C7",
    "U+24C8", "U+24C9", "U+24CA", "U+24CB", "U+24CC", "U+24CD", "U+24CE",
    "U+24CF", "U+2C00", "U+2C01", "U+2C02", "U+2C03", "U+2C04", "U+2C05",
    "U+2C06", "U+2C07", "U+2C08", "U+2C09", "U+2C0A", "U+2C0B", "U+2C0C",
    "U+2C0D", "U+2C0E", "U+2C0F", "U+2C10", "U+2C11", "U+2C12", "U+2C13",
    "U+2C14", "U+2C15", "U+2C16", "U+2C17", "U+2C18", "U+2C19", "U+2C1A",
    "U+2C1B", "U+2C1C", "U+2C1D", "U+2C1E", "U+2C1F", "U+2C20", "U+2C21",
    "U+2C22", "U+2C23", "U+2C24", "U+2C25", "U+2C26", "U+2C27", "U+2C28",
    "U+2C29", "U+2C2A", "U+2C2B", "U+2C2C", "U+2C2D", "U+2C2E", "U+2C2F",
    "U+2C60", "U+023A", "U+023E", "U+2C67", "U+2C69", "U+2C6B", "U+2C72",
    "U+2C75", "U+2C80", "U+2C82", "U+2C84", "U+2C86", "U+2C88", "U+2C8A",
    "U+2C8C", "U+2C8E", "U+2C90", "U+2C92", "U+2C94", "U+2C96", "U+2C98",
    "U+2C9A", "U+2C9C", "U+2C9E", "U+2CA0", "U+2CA2", "U+2CA4", "U+2CA6",
    "U+2CA8", "U+2CAA", "U+2CAC", "U+2CAE", "U+2CB0", "U+2CB2", "U+2CB4",
    "U+2CB6", "U+2CB8", "U+2CBA", "U+2CBC", "U+2CBE", "U+2CC0", "U+2CC2",
    "U+2CC4", "U+2CC6", "U+2CC8", "U+2CCA", "U+2CCC", "U+2CCE", "U+2CD0",
    "U+2CD2", "U+2CD4", "U+2CD6", "U+2CD8", "U+2CDA", "U+2CDC", "U+2CDE",
    "U+2CE0", "U+2CE2", "U+2CEB", "U+2CED", "U+2CF2", "U+10A0", "U+10A1",
    "U+10A2", "U+10A3", "U+10A4", "U+10A5", "U+10A6", "U+10A7", "U+10A8",
    "U+10A9", "U+10AA", "U+10AB", "U+10AC", "U+10AD", "U+10AE", "U+10AF",
    "U+10B0", "U+10B1", "U+10B2", "U+10B3", "U+10B4", "U+10B5", "U+10B6",
    "U+10B7", "U+10B8", "U+10B9", "U+10BA", "U+10BB", "U+10BC", "U+10BD",
    "U+10BE", "U+10BF", "U+10C0", "U+10C1", "U+10C2", "U+10C3", "U+10C4",
    "U+10C5", "U+10C7", "U+10CD", "U+A640", "U+A642", "U+A644", "U+A646",
    "U+A648", "U+A64A", "U+A64C", "U+A64E", "U+A650", "U+A652", "U+A654",
    "U+A656", "U+A658", "U+A65A", "U+A65C", "U+A65E", "U+A660", "U+A662",
    "U+A664", "U+A666", "U+A668", "U+A66A", "U+A66C", "U+A680", "U+A682",
    "U+A684", "U+A686", "U+A688", "U+A68A", "U+A68C", "U+A68E", "U+A690",
    "U+A692", "U+A694", "U+A696", "U+A698", "U+A69A", "U+A722", "U+A724",
    "U+A726", "U+A728", "U+A72A", "U+A72C", "U+A72E", "U+A732", "U+A734",
    "U+A736", "U+A738", "U+A73A", "U+A73C", "U+A73E", "U+A740", "U+A742",
    "U+A744", "U+A746", "U+A748", "U+A74A", "U+A74C", "U+A74E", "U+A750",
    "U+A752", "U+A754", "U+A756", "U+A758", "U+A75A", "U+A75C", "U+A75E",
    "U+A760", "U+A762", "U+A764", "U+A766", "U+A768", "U+A76A", "U+A76C",
    "U+A76E", "U+A779", "U+A77B", "U+A77E", "U+A780", "U+A782", "U+A784",
    "U+A786", "U+A78B", "U+A790", "U+A792", "U+A7C4", "U+A796", "U+A798",
    "U+A79A", "U+A79C", "U+A79E", "U+A7A0", "U+A7A2", "U+A7A4", "U+A7A6",
    "U+A7A8", "U+A7B4", "U+A7B6", "U+A7B8", "U+A7BA", "U+A7BC", "U+A7BE",
    "U+A7C0", "U+A7C2", "U+A7C7", "U+A7C9", "U+A7CC", "U+A7CE", "U+A7D0",
    "U+A7D2", "U+A7D4", "U+A7D6", "U+A7D8", "U+A7DA", "U+A7F5", "U+A7B3",
    "U+13A0", "U+13A1", "U+13A2", "U+13A3", "U+13A4", "U+13A5", "U+13A6",
    "U+13A7", "U+13A8", "U+13A9", "U+13AA", "U+13AB", "U+13AC", "U+13AD",
    "U+13AE", "U+13AF", "U+13B0", "U+13B1", "U+13B2", "U+13B3", "U+13B4",
    "U+13B5", "U+13B6", "U+13B7", "U+13B8", "U+13B9", "U+13BA", "U+13BB",
    "U+13BC", "U+13BD", "U+13BE", "U+13BF", "U+13C0", "U+13C1", "U+13C2",
    "U+13C3", "U+13C4", "U+13C5", "U+13C6", "U+13C7", "U+13C8", "U+13C9",
    "U+13CA", "U+13CB", "U+13CC", "U+13CD", "U+13CE", "U+13CF", "U+13D0",
    "U+13D1", "U+13D2", "U+13D3", "U+13D4", "U+13D5", "U+13D6", "U+13D7",
    "U+13D8", "U+13D9", "U+13DA", "U+13DB", "U+13DC", "U+13DD", "U+13DE",
    "U+13DF", "U+13E0", "U+13E1", "U+13E2", "U+13E3", "U+13E4", "U+13E5",
    "U+13E6", "U+13E7", "U+13E8", "U+13E9", "U+13EA", "U+13EB", "U+13EC",
    "U+13ED", "U+13EE", "U+13EF", "U+FF21", "U+FF22", "U+FF23", "U+FF24",
    "U+FF25", "U+FF26", "U+FF27", "U+FF28", "U+FF29", "U+FF2A", "U+FF2B",
    "U+FF2C", "U+FF2D", "U+FF2E", "U+FF2F", "U+FF30", "U+FF31", "U+FF32",
    "U+FF33", "U+FF34", "U+FF35", "U+FF36", "U+FF37", "U+FF38", "U+FF39",
    "U+FF3A">>

\* the other code units that toUpperCase changes, each with its upper-case
\* form (the sharp s becomes two letters, the micro sign the Greek capital mu)
UpperSpecial ==
  <<<<"µ", <<"U+039C">>>>, <<"ß", <<"S", "S">>>>, <<"U+0131", <<"I">>>>,
    <<"U+0149", <<"U+02BC", "N">>>>, <<"U+017F", <<"S">>>>,
    <<"U+01C5", <<"U+01C4">>>>, <<"U+01C8", <<"U+01C7">>>>,
    <<"U+01CB", <<"U+01CA">>>>, <<"U+01F0", <<"J", "U+030C">>>>,
    <<"U+01F2", <<"U+01F1">>>>, <<"U+0345", <<"U+0399">>>>,
    <<"U+0390", <<"U+0399", "U+0308", "U+0301">>>>,
    <<"U+03B0", <<"U+03A5", "U+0308", "U+0301">>>>,
    <<"U+03C2", <<"U+03A3">>>>, <<"U+03D0", <<"U+0392">>>>,
    <<"U+03D1", <<"U+0398">>>>, <<"U+03D5", <<"U+03A6">>>>,
    <<"U+03D6", <<"U+03A0">>>>, <<"U+03F0", <<"U+039A">>>>,
    <<"U+03F1", <<"U+03A1">>>>, <<"U+03F5", <<"U+0395">>>>,
    <<"U+0587", <<"U+0535", "U+0552">>>>, <<"U+1C80", <<"U+0412">>>>,
    <<"U+1C81", <<"U+0414">>>>, <<"U+1C82", <<"U+041E">>>>,
    <<"U+1C83", <<"U+0421">>>>, <<"U+1C84", <<"U+0422">>>>,
    <<"U+1C85", <<"U+0422">>>>, <<"U+1C86", <<"U+042A">>>>,
    <<"U+1C87", <<"U+0462">>>>, <<"U+1C88", <<"U+A64A">>>>,
    <<"U+1E96", <<"H", "U+0331">>>>, <<"U+1E97", <<"T", "U+0308">>>>,
    <<"U+1E98", <<"W", "U+030A">>>>, <<"U+1E99", <<"Y", "U+030A">>>>,
    <<"U+1E9A", <<"A", "U+02BE">>>>, <<"U+1E9B", <<"U+1E60">>>>,
    <<"U+1F50", <<"U+03A5", "U+0313">>>>,
    <<"U+1F52", <<"U+03A5", "U+0313", "U+0300">>>>,
    <<"U+1F54", <<"U+03A5", "U+0313", "U+0301">>>>,
    <<"U+1F56", <<"U+03A5", "U+0313", "U+0342">>>>,
    <<"U+1F80", <<"U+1F08", "U+0399">>>>,
    <<"U+1F81", <<"U+1F09", "U+0399">>>>,
    <<"U+1F82", <<"U+1F0A", "U+0399">>>>,
    <<"U+1F83", <<"U+1F0B", "U+0399">>>>,
    <<"U+1F84", <<"U+1F0C", "U+0399">>>>,
    <<"U+1F85", <<"U+1F0D", "U+0399">>>>,
    <<"U+1F86", <<"U+1F0E", "U+0399">>>>,
    <<"U+1F87", <<"U+1F0F", "U+0399">>>>,
    <<"U+1F88", <<"U+1F08", "U+0399">>>>,
    <<"U+1F89", <<"U+1F09", "U+0399">>>>,
    <<"U+1F8A", <<"U+1F0A", "U+0399">>>>,
    <<"U+1F8B", <<"U+1F0B", "U+0399">>>>,
    <<"U+1F8C", <<"U+1F0C", "U+0399">>>>,
    <<"U+1F8D", <<"U+1F0D", "U+0399">>>>,
    <<"U+1F8E", <<"U+1F0E", "U+0399">>>>,
    <<"U+1F8F", <<"U+1F0F", "U+0399">>>>,
    <<"U+1F90", <<"U+1F28", "U+0399">>>>,
    <<"U+1F91", <<"U+1F29", "U+0399">>>>,
    <<"U+1F92", <<"U+1F2A", "U+0399">>>>,
    <<"U+1F93", <<"U+1F2B", "U+0399">>>>,
    <<"U+1F94", <<"U+1F2C", "U+0399">>>>,
    <<"U+1F95", <<"U+1F2D", "U+0399">>>>,
    <<"U+1F96", <<"U+1F2E", "U+0399">>>>,
    <<"U+1F97", <<"U+1F2F", "U+0399">>>>,
    <<"U+1F98", <<"U+1F28", "U+0399">>>>,
    <<"U+1F99", <<"U+1F29", "U+0399">>>>,
    <<"U+1F9A", <<"U+1F2A", "U+0399">>>>,
    <<"U+1F9B", <<"U+1F2B", "U+0399">>>>,
    <<"U+1F9C", <<"U+1F2C", "U+0399">>>>,
    <<"U+1F9D", <<"U+1F2D", "U+0399">>>>,
    <<"U+1F9E", <<"U+1F2E", "U+0399">>>>,
    <<"U+1F9F", <<"U+1F2F", "U+0399">>>>,
    <<"U+1FA0", <<"U+1F68", "U+0399">>>>,
    <<"U+1FA1", <<"U+1F69", "U+0399">>>>,
    <<"U+1FA2", <<"U+1F6A", "U+0399">>>>,
    <<"U+1FA3", <<"U+1F6B", "U+0399">>>>,
    <<"U+1FA4", <<"U+1F6C", "U+0399">>>>,
    <<"U+1FA5", <<"U+1F6D", "U+0399">>>>,
    <<"U+1FA6", <<"U+1F6E", "U+0399">>>>,
    <<"U+1FA7", <<"U+1F6F", "U+0399">>>>,
    <<"U+1FA8", <<"U+1F68", "U+0399">>>>,
    <<"U+1FA9", <<"U+1F69", "U+0399">>>>,
    <<"U+1FAA", <<"U+1F6A", "U+0399">>>>,
    <<"U+1FAB", <<"U+1F6B", "U+0399">>>>,
    <<"U+1FAC", <<"U+1F6C", "U+0399">>>>,
    <<"U+1FAD", <<"U+1F6D", "U+0399">>>>,
    <<"U+1FAE", <<"U+1F6E", "U+0399">>>>,
    <<"U+1FAF", <<"U+1F6F", "U+0399">>>>,
    <<"U+1FB2", <<"U+1FBA", "U+0399">>>>,
    <<"U+1FB3", <<"U+0391", "U+0399">>>>,
    <<"U+1FB4", <<"U+0386", "U+0399">>>>,
    <<"U+1FB6", <<"U+0391", "U+0342">>>>,
    <<"U+1FB7", <<"U+0391", "U+0342", "U+0399">>>>,
    <<"U+1FBC", <<"U+0391", "U+0399">>>>, <<"U+1FBE", <<"U+0399">>>>,
    <<"U+1FC2", <<"U+1FCA", "U+0399">>>>,
    <<"U+1FC3", <<"U+0397", "U+0399">>>>,
    <<"U+1FC4", <<"U+0389", "U+0399">>>>,
    <<"U+1FC6", <<"U+0397", "U+0342">>>>,
    <<"U+1FC7", <<"U+0397", "U+0342", "U+0399">>>>,
    <<"U+1FCC", <<"U+0397", "U+0399">>>>,
    <<"U+1FD2", <<"U+0399", "U+0308", "U+0300">>>>,
    <<"U+1FD3", <<"U+0399", "U+0308", "U+0301">>>>,
    <<"U+1FD6", <<"U+0399", "U+0342">>>>,
    <<"U+1FD7", <<"U+0399", "U+0308", "U+0342">>>>,
    <<"U+1FE2", <<"U+03A5", "U+0308", "U+0300">>>>,
    <<"U+1FE3", <<"U+03A5", "U+0308", "U+0301">>>>,
    <<"U+1FE4", <<"U+03A1", "U+0313">>>>,
    <<"U+1FE6", <<"U+03A5", "U+0342">>>>,
    <<"U+1FE7", <<"U+03A5", "U+0308", "U+0342">>>>,
    <<"U+1FF2", <<"U+1FFA", "U+0399">>>>,
    <<"U+1FF3", <<"U+03A9", "U+0399">>>>,
    <<"U+1FF4", <<"U+038F", "U+0399">>>>,
    <<"U+1FF6", <<"U+03A9", "U+0342">>>>,
    <<"U+1FF7", <<"U+03A9", "U+0342", "U+0399">>>>,
    <<"U+1FFC", <<"U+03A9", "U+0399">>>>, <<"U+FB00", <<"F", "F">>>>,
    <<"U+FB01", <<"F", "I">>>>, <<"U+FB02", <<"F", "L">>>>,
    <<"U+FB03", <<"F", "F", "I">>>>, <<"U+FB04", <<"F", "F", "L">>>>,
    <<"U+FB05", <<"S", "T">>>>, <<"U+FB06", <<"S", "T">>>>,
    <<"U+FB13", <<"U+0544", "U+0546">>>>,
    <<"U+FB14", <<"U+0544", "U+0535">>>>,
    <<"U+FB15", <<"U+0544", "U+053B">>>>,
    <<"U+FB16", <<"U+054E", "U+0546">>>>,
    <<"U+FB17", <<"U+0544", "U+053D">>>>>>

\* the other code units that toLowerCase changes, each with its lower-case form
LowerSpecial ==
  <<<<"U+0130", <<"i", "U+0307">>>>, <<"U+01C5", <<"U+01C6">>>>,
    <<"U+01C8", <<"U+01C9">>>>, <<"U+01CB", <<"U+01CC">>>>,
    <<"U+01F2", <<"U+01F3">>>>, <<"U+03F4", <<"U+03B8">>>>,
    <<"U+1E9E", <<"ß">>>>, <<"U+1F88", <<"U+1F80">>>>,
    <<"U+1F89", <<"U+1F81">>>>, <<"U+1F8A", <<"U+1F82">>>>,
    <<"U+1F8B", <<"U+1F83">>>>, <<"U+1F8C", <<"U+1F84">>>>,
    <<"U+1F8D", <<"U+1F85">>>>, <<"U+1F8E", <<"U+1F86">>>>,
    <<"U+1F8F", <<"U+1F87">>>>, <<"U+1F98", <<"U+1F90">>>>,
    <<"U+1F99", <<"U+1F91">>>>, <<"U+1F9A", <<"U+1F92">>>>,
    <<"U+1F9B", <<"U+1F93">>>>, <<"U+1F9C", <<"U+1F94">>>>,
    <<"U+1F9D", <<"U+1F95">>>>, <<"U+1F9E", <<"U+1F96">>>>,
    <<"U+1F9F", <<"U+1F97">>>>, <<"U+1FA8", <<"U+1FA0">>>>,
    <<"U+1FA9", <<"U+1FA1">>>>, <<"U+1FAA", <<"U+1FA2">>>>,
    <<"U+1FAB", <<"U+1FA3">>>>, <<"U+1FAC", <<"U+1FA4">>>>,
    <<"U+1FAD", <<"U+1FA5">>>>, <<"U+1FAE", <<"U+1FA6">>>>,
    <<"U+1FAF", <<"U+1FA7">>>>, <<"U+1FBC", <<"U+1FB3">>>>,
    <<"U+1FCC", <<"U+1FC3">>>>, <<"U+1FFC", <<"U+1FF3">>>>,
    <<"U+2126", <<"U+03C9">>>>, <<"U+212A", <<"k">>>>, <<"U+212B", <<"å">>>>>>

\* the letters outside the Basic Multilingual Plane that have two forms, each
\* a high and a low surrogate
AstralLowerChars ==
  <<<<"U+D801", "U+DC28">>, <<"U+D801", "U+DC29">>, <<"U+D801", "U+DC2A">>,
    <<"U+D801", "U+DC2B">>, <<"U+D801", "U+DC2C">>, <<"U+D801", "U+DC2D">>,
    <<"U+D801", "U+DC2E">>, <<"U+D801", "U+DC2F">>, <<"U+D801", "U+DC30">>,
    <<"U+D801", "U+DC31">>, <<"U+D801", "U+DC32">>, <<"U+D801", "U+DC33">>,
    <<"U+D801", "U+DC34">>, <<"U+D801", "U+DC35">>, <<"U+D801", "U+DC36">>,
    <<"U+D801", "U+DC37">>, <<"U+D801", "U+DC38">>, <<"U+D801", "U+DC39">>,
    <<"U+D801", "U+DC3A">>, <<"U+D801", "U+DC3B">>, <<"U+D801", "U+DC3C">>,
    <<"U+D801", "U+DC3D">>, <<"U+D801", "U+DC3E">>, <<"U+D801", "U+DC3F">>,
    <<"U+D801", "U+DC40">>, <<"U+D801", "U+DC41">>, <<"U+D801", "U+DC42">>,
    <<"U+D801", "U+DC43">>, <<"U+D801", "U+DC44">>, <<"U+D801", "U+DC45">>,
    <<"U+D801", "U+DC46">>, <<"U+D801", "U+DC47">>, <<"U+D801", "U+DC48">>,
    <<"U+D801", "U+DC49">>, <<"U+D801", "U+DC4A">>, <<"U+D801", "U+DC4B">>,
    <<"U+D801", "U+DC4C">>, <<"U+D801", "U+DC4D">>, <<"U+D801", "U+DC4E">>,
    <<"U+D801", "U+DC4F">>, <<"U+D801", "U+DCD8">>, <<"U+D801", "U+DCD9">>,
    <<"U+D801", "U+DCDA">>, <<"U+D801", "U+DCDB">>, <<"U+D801", "U+DCDC">>,
    <<"U+D801", "U+DCDD">>, <<"U+D801", "U+DCDE">>, <<"U+D801", "U+DCDF">>,
    <<"U+D801", "U+DCE0">>, <<"U+D801", "U+DCE1">>, <<"U+D801", "U+DCE2">>,
    <<"U+D801", "U+DCE3">>, <<"U+D801", "U+DCE4">>, <<"U+D801", "U+DCE5">>,
    <<"U+D801", "U+DCE6">>, <<"U+D801", "U+DCE7">>, <<"U+D801", "U+DCE8">>,
    <<"U+D801", "U+DCE9">>, <<"U+D801", "U+DCEA">>, <<"U+D801", "U+DCEB">>,
    <<"U+D801", "U+DCEC">>, <<"U+D801", "U+DCED">>, <<"U+D801", "U+DCEE">>,
    <<"U+D801", "U+DCEF">>, <<"U+D801", "U+DCF0">>, <<"U+D801", "U+DCF1">>,
    <<"U+D801", "U+DCF2">>, <<"U+D801", "U+DCF3">>, <<"U+D801", "U+DCF4">>,
    <<"U+D801", "U+DCF5">>, <<"U+D801", "U+DCF6">>, <<"U+D801", "U+DCF7">>,
    <<"U+D801", "U+DCF8">>, <<"U+D801", "U+DCF9">>, <<"U+D801", "U+DCFA">>,
    <<"U+D801", "U+DCFB">>, <<"U+D801", "U+DD97">>, <<"U+D801", "U+DD98">>,
    <<"U+D801", "U+DD99">>, <<"U+D801", "U+DD9A">>, <<"U+D801", "U+DD9B">>,
    <<"U+D801", "U+DD9C">>, <<"U+D801", "U+DD9D">>, <<"U+D801", "U+DD9E">>,
    <<"U+D801", "U+DD9F">>, <<"U+D801", "U+DDA0">>, <<"U+D801", "U+DDA1">>,
    <<"U+D801", "U+DDA3">>, <<"U+D801", "U+DDA4">>, <<"U+D801", "U+DDA5">>,
    <<"U+D801", "U+DDA6">>, <<"U+D801", "U+DDA7">>, <<"U+D801", "U+DDA8">>,
    <<"U+D801", "U+DDA9">>, <<"U+D801", "U+DDAA">>, <<"U+D801", "U+DDAB">>,
    <<"U+D801", "U+DDAC">>, <<"U+D801", "U+DDAD">>, <<"U+D801", "U+DDAE">>,
    <<"U+D801", "U+DDAF">>, <<"U+D801", "U+DDB0">>, <<"U+D801", "U+DDB1">>,
    <<"U+D801", "U+DDB3">>, <<"U+D801", "U+DDB4">>, <<"U+D801", "U+DDB5">>,
    <<"U+D801", "U+DDB6">>, <<"U+D801", "U+DDB7">>, <<"U+D801", "U+DDB8">>,
    <<"U+D801", "U+DDB9">>, <<"U+D801", "U+DDBB">>, <<"U+D801", "U+DDBC">>,
    <<"U+D803", "U+DCC0">>, <<"U+D803", "U+DCC1">>, <<"U+D803", "U+DCC2">>,
    <<"U+D803", "U+DCC3">>, <<"U+D803", "U+DCC4">>, <<"U+D803", "U+DCC5">>,
    <<"U+D803", "U+DCC6">>, <<"U+D803", "U+DCC7">>, <<"U+D803", "U+DCC8">>,
    <<"U+D803", "U+DCC9">>, <<"U+D803", "U+DCCA">>, <<"U+D803", "U+DCCB">>,
    <<"U+D803", "U+DCCC">>, <<"U+D803", "U+DCCD">>, <<"U+D803", "U+DCCE">>,
    <<"U+D803", "U+DCCF">>, <<"U+D803", "U+DCD0">>, <<"U+D803", "U+DCD1">>,
    <<"U+D803", "U+DCD2">>, <<"U+D803", "U+DCD3">>, <<"U+D803", "U+DCD4">>,
    <<"U+D803", "U+DCD5">>, <<"U+D803", "U+DCD6">>, <<"U+D803", "U+DCD7">>,
    <<"U+D803", "U+DCD8">>, <<"U+D803", "U+DCD9">>, <<"U+D803", "U+DCDA">>,
    <<"U+D803", "U+DCDB">>, <<"U+D803", "U+DCDC">>, <<"U+D803", "U+DCDD">>,
    <<"U+D803", "U+DCDE">>, <<"U+D803", "U+DCDF">>, <<"U+D803", "U+DCE0">>,
    <<"U+D803", "U+DCE1">>, <<"U+D803", "U+DCE2">>, <<"U+D803", "U+DCE3">>,
    <<"U+D803", "U+DCE4">>, <<"U+D803", "U+DCE5">>, <<"U+D803", "U+DCE6">>,
    <<"U+D803", "U+DCE7">>, <<"U+D803", "U+DCE8">>, <<"U+D803", "U+DCE9">>,
    <<"U+D803", "U+DCEA">>, <<"U+D803", "U+DCEB">>, <<"U+D803", "U+DCEC">>,
    <<"U+D803", "U+DCED">>, <<"U+D803", "U+DCEE">>, <<"U+D803", "U+DCEF">>,
    <<"U+D803", "U+DCF0">>, <<"U+D803", "U+DCF1">>, <<"U+D803", "U+DCF2">>,
    <<"U+D803", "U+DD70">>, <<"U+D803", "U+DD71">>, <<"U+D803", "U+DD72">>,
    <<"U+D803", "U+DD73">>, <<"U+D803", "U+DD74">>, <<"U+D803", "U+DD75">>,
    <<"U+D803", "U+DD76">>, <<"U+D803", "U+DD77">>, <<"U+D803", "U+DD78">>,
    <<"U+D803", "U+DD79">>, <<"U+D803", "U+DD7A">>, <<"U+D803", "U+DD7B">>,
    <<"U+D803", "U+DD7C">>, <<"U+D803", "U+DD7D">>, <<"U+D803", "U+DD7E">>,
    <<"U+D803", "U+DD7F">>, <<"U+D803", "U+DD80">>, <<"U+D803", "U+DD81">>,
    <<"U+D803", "U+DD82">>, <<"U+D803", "U+DD83">>, <<"U+D803", "U+DD84">>,
    <<"U+D803", "U+DD85">>, <<"U+D806", "U+DCC0">>, <<"U+D806", "U+DCC1">>,
    <<"U+D806", "U+DCC2">>, <<"U+D806", "U+DCC3">>, <<"U+D806", "U+DCC4">>,
    <<"U+D806", "U+DCC5">>, <<"U+D806", "U+DCC6">>, <<"U+D806", "U+DCC7">>,
    <<"U+D806", "U+DCC8">>, <<"U+D806", "U+DCC9">>, <<"U+D806", "U+DCCA">>,
    <<"U+D806", "U+DCCB">>, <<"U+D806", "U+DCCC">>, <<"U+D806", "U+DCCD">>,
    <<"U+D806", "U+DCCE">>, <<"U+D806", "U+DCCF">>, <<"U+D806", "U+DCD0">>,
    <<"U+D806", "U+DCD1">>, <<"U+D806", "U+DCD2">>, <<"U+D806", "U+DCD3">>,
    <<"U+D806", "U+DCD4">>, <<"U+D806", "U+DCD5">>, <<"U+D806", "U+DCD6">>,
    <<"U+D806", "U+DCD7">>, <<"U+D806", "U+DCD8">>, <<"U+D806", "U+DCD9">>,
    <<"U+D806", "U+DCDA">>, <<"U+D806", "U+DCDB">>, <<"U+D806", "U+DCDC">>,
    <<"U+D806", "U+DCDD">>, <<"U+D806", "U+DCDE">>, <<"U+D806", "U+DCDF">>,
    <<"U+D81B", "U+DE60">>, <<"U+D81B", "U+DE61">>, <<"U+D81B", "U+DE62">>,
    <<"U+D81B", "U+DE63">>, <<"U+D81B", "U+DE64">>, <<"U+D81B", "U+DE65">>,
    <<"U+D81B", "U+DE66">>, <<"U+D81B", "U+DE67">>, <<"U+D81B", "U+DE68">>,
    <<"U+D81B", "U+DE69">>, <<"U+D81B", "U+DE6A">>, <<"U+D81B", "U+DE6B">>,
    <<"U+D81B", "U+DE6C">>, <<"U+D81B", "U+DE6D">>, <<"U+D81B", "U+DE6E">>,
    <<"U+D81B", "U+DE6F">>, <<"U+D81B", "U+DE70">>, <<"U+D81B", "U+DE71">>,
    <<"U+D81B", "U+DE72">>, <<"U+D81B", "U+DE73">>, <<"U+D81B", "U+DE74">>,
    <<"U+D81B", "U+DE75">>, <<"U+D81B", "U+DE76">>, <<"U+D81B", "U+DE77">>,
    <<"U+D81B", "U+DE78">>, <<"U+D81B", "U+DE79">>, <<"U+D81B", "U+DE7A">>,
    <<"U+D81B", "U+DE7B">>, <<"U+D81B", "U+DE7C">>, <<"U+D81B", "U+DE7D">>,
    <<"U+D81B", "U+DE7E">>, <<"U+D81B", "U+DE7F">>, <<"U+D81B", "U+DEBB">>,
    <<"U+D81B", "U+DEBC">>, <<"U+D81B", "U+DEBD">>, <<"U+D81B", "U+DEBE">>,
    <<"U+D81B", "U+DEBF">>, <<"U+D81B", "U+DEC0">>, <<"U+D81B", "U+DEC1">>,
    <<"U+D81B", "U+DEC2">>, <<"U+D81B", "U+DEC3">>, <<"U+D81B", "U+DEC4">>,
    <<"U+D81B", "U+DEC5">>, <<"U+D81B", "U+DEC6">>, <<"U+D81B", "U+DEC7">>,
    <<"U+D81B", "U+DEC8">>, <<"U+D81B", "U+DEC9">>, <<"U+D81B", "U+DECA">>,
    <<"U+D81B", "U+DECB">>, <<"U+D81B", "U+DECC">>, <<"U+D81B", "U+DECD">>,
    <<"U+D81B", "U+DECE">>, <<"U+D81B", "U+DECF">>, <<"U+D81B", "U+DED0">>,
    <<"U+D81B", "U+DED1">>, <<"U+D81B", "U+DED2">>, <<"U+D81B", "U+DED3">>,
    <<"U+D83A", "U+DD22">>, <<"U+D83A", "U+DD23">>, <<"U+D83A", "U+DD24">>,
    <<"U+D83A", "U+DD25">>, <<"U+D83A", "U+DD26">>, <<"U+D83A", "U+DD27">>,
    <<"U+D83A", "U+DD28">>, <<"U+D83A", "U+DD29">>, <<"U+D83A", "U+DD2A">>,
    <<"U+D83A", "U+DD2B">>, <<"U+D83A", "U+DD2C">>, <<"U+D83A", "U+DD2D">>,
    <<"U+D83A", "U+DD2E">>, <<"U+D83A", "U+DD2F">>, <<"U+D83A", "U+DD30">>,
    <<"U+D83A", "U+DD31">>, <<"U+D83A", "U+DD32">>, <<"U+D83A", "U+DD33">>,
    <<"U+D83A", "U+DD34">>, <<"U+D83A", "U+DD35">>, <<"U+D83A", "U+DD36">>,
    <<"U+D83A", "U+DD37">>, <<"U+D83A", "U+DD38">>, <<"U+D83A", "U+DD39">>,
    <<"U+D83A", "U+DD3A">>, <<"U+D83A", "U+DD3B">>, <<"U+D83A", "U+DD3C">>,
    <<"U+D83A", "U+DD3D">>, <<"U+D83A", "U+DD3E">>, <<"U+D83A", "U+DD3F">>,
    <<"U+D83A", "U+DD40">>, <<"U+D83A", "U+DD41">>, <<"U+D83A", "U+DD42">>,
    <<"U+D83A", "U+DD43">>>>

AstralUpperChars ==
  <<<<"U+D801", "U+DC00">>, <<"U+D801", "U+DC01">>, <<"U+D801", "U+DC02">>,
    <<"U+D801", "U+DC03">>, <<"U+D801", "U+DC04">>, <<"U+D801", "U+DC05">>,
    <<"U+D801", "U+DC06">>, <<"U+D801", "U+DC07">>, <<"U+D801", "U+DC08">>,
    <<"U+D801", "U+DC09">>, <<"U+D801", "U+DC0A">>, <<"U+D801", "U+DC0B">>,
    <<"U+D801", "U+DC0C">>, <<"U+D801", "U+DC0D">>, <<"U+D801", "U+DC0E">>,
    <<"U+D801", "U+DC0F">>, <<"U+D801", "U+DC10">>, <<"U+D801", "U+DC11">>,
    <<"U+D801", "U+DC12">>, <<"U+D801", "U+DC13">>, <<"U+D801", "U+DC14">>,
    <<"U+D801", "U+DC15">>, <<"U+D801", "U+DC16">>, <<"U+D801", "U+DC17">>,
    <<"U+D801", "U+DC18">>, <<"U+D801", "U+DC19">>, <<"U+D801", "U+DC1A">>,
    <<"U+D801", "U+DC1B">>, <<"U+D801", "U+DC1C">>, <<"U+D801", "U+DC1D">>,
    <<"U+D801", "U+DC1E">>, <<"U+D801", "U+DC1F">>, <<"U+D801", "U+DC20">>,
    <<"U+D801", "U+DC21">>, <<"U+D801", "U+DC22">>, <<"U+D801", "U+DC23">>,
    <<"U+D801", "U+DC24">>, <<"U+D801", "U+DC25">>, <<"U+D801", "U+DC26">>,
    <<"U+D801", "U+DC27">>, <<"U+D801", "U+DCB0">>, <<"U+D801", "U+DCB1">>,
    <<"U+D801", "U+DCB2">>, <<"U+D801", "U+DCB3">>, <<"U+D801", "U+DCB4">>,
    <<"U+D801", "U+DCB5">>, <<"U+D801", "U+DCB6">>, <<"U+D801", "U+DCB7">>,
    <<"U+D801", "U+DCB8">>, <<"U+D801", "U+DCB9">>, <<"U+D801", "U+DCBA">>,
    <<"U+D801", "U+DCBB">>, <<"U+D801", "U+DCBC">>, <<"U+D801", "U+DCBD">>,
    <<"U+D801", "U+DCBE">>, <<"U+D801", "U+DCBF">>, <<"U+D801", "U+DCC0">>,
    <<"U+D801", "U+DCC1">>, <<"U+D801", "U+DCC2">>, <<"U+D801", "U+DCC3">>,
    <<"U+D801", "U+DCC4">>, <<"U+D801", "U+DCC5">>, <<"U+D801", "U+DCC6">>,
    <<"U+D801", "U+DCC7">>, <<"U+D801", "U+DCC8">>, <<"U+D801", "U+DCC9">>,
    <<"U+D801", "U+DCCA">>, <<"U+D801", "U+DCCB">>, <<"U+D801", "U+DCCC">>,
    <<"U+D801", "U+DCCD">>, <<"U+D801", "U+DCCE">>, <<"U+D801", "U+DCCF">>,
    <<"U+D801", "U+DCD0">>, <<"U+D801", "U+DCD1">>, <<"U+D801", "U+DCD2">>,
    <<"U+D801", "U+DCD3">>, <<"U+D801", "U+DD70">>, <<"U+D801", "U+DD71">>,
    <<"U+D801", "U+DD72">>, <<"U+D801", "U+DD73">>, <<"U+D801", "U+DD74">>,
    <<"U+D801", "U+DD75">>, <<"U+D801", "U+DD76">>, <<"U+D801", "U+DD77">>,
    <<"U+D801", "U+DD78">>, <<"U+D801", "U+DD79">>, <<"U+D801", "U+DD7A">>,
    <<"U+D801", "U+DD7C">>, <<"U+D801", "U+DD7D">>, <<"U+D801", "U+DD7E">>,
    <<"U+D801", "U+DD7F">>, <<"U+D801", "U+DD80">>, <<"U+D801", "U+DD81">>,
    <<"U+D801", "U+DD82">>, <<"U+D801", "U+DD83">>, <<"U+D801", "U+DD84">>,
    <<"U+D801", "U+DD85">>, <<"U+D801", "U+DD86">>, <<"U+D801", "U+DD87">>,
    <<"U+D801", "U+DD88">>, <<"U+D801", "U+DD89">>, <<"U+D801", "U+DD8A">>,
    <<"U+D801", "U+DD8C">>, <<"U+D801", "U+DD8D">>, <<"U+D801", "U+DD8E">>,
    <<"U+D801", "U+DD8F">>, <<"U+D801", "U+DD90">>, <<"U+D801", "U+DD91">>,
    <<"U+D801", "U+DD92">>, <<"U+D801", "U+DD94">>, <<"U+D801", "U+DD95">>,
    <<"U+D803", "U+DC80">>, <<"U+D803", "U+DC81">>, <<"U+D803", "U+DC82">>,
    <<"U+D803", "U+DC83">>, <<"U+D803", "U+DC84">>, <<"U+D803", "U+DC85">>,
    <<"U+D803", "U+DC86">>, <<"U+D803", "U+DC87">>, <<"U+D803", "U+DC88">>,
    <<"U+D803", "U+DC89">>, <<"U+D803", "U+DC8A">>, <<"U+D803", "U+DC8B">>,
    <<"U+D803", "U+DC8C">>, <<"U+D803", "U+DC8D">>, <<"U+D803", "U+DC8E">>,
    <<"U+D803", "U+DC8F">>, <<"U+D803", "U+DC90">>, <<"U+D803", "U+DC91">>,
    <<"U+D803", "U+DC92">>, <<"U+D803", "U+DC93">>, <<"U+D803", "U+DC94">>,
    <<"U+D803", "U+DC95">>, <<"U+D803", "U+DC96">>, <<"U+D803", "U+DC97">>,
    <<"U+D803", "U+DC98">>, <<"U+D803", "U+DC99">>, <<"U+D803", "U+DC9A">>,
    <<"U+D803", "U+DC9B">>, <<"U+D803", "U+DC9C">>, <<"U+D803", "U+DC9D">>,
    <<"U+D803", "U+DC9E">>, <<"U+D803", "U+DC9F">>, <<"U+D803", "U+DCA0">>,
    <<"U+D803", "U+DCA1">>, <<"U+D803", "U+DCA2">>, <<"U+D803", "U+DCA3">>,
    <<"U+D803", "U+DCA4">>, <<"U+D803", "U+DCA5">>, <<"U+D803", "U+DCA6">>,
    <<"U+D803", "U+DCA7">>, <<"U+D803", "U+DCA8">>, <<"U+D803", "U+DCA9">>,
    <<"U+D803", "U+DCAA">>, <<"U+D803", "U+DCAB">>, <<"U+D803", "U+DCAC">>,
    <<"U+D803", "U+DCAD">>, <<"U+D803", "U+DCAE">>, <<"U+D803", "U+DCAF">>,
    <<"U+D803", "U+DCB0">>, <<"U+D803", "U+DCB1">>, <<"U+D803", "U+DCB2">>,
    <<"U+D803", "U+DD50">>, <<"U+D803", "U+DD51">>, <<"U+D803", "U+DD52">>,
    <<"U+D803", "U+DD53">>, <<"U+D803", "U+DD54">>, <<"U+D803", "U+DD55">>,
    <<"U+D803", "U+DD56">>, <<"U+D803", "U+DD57">>, <<"U+D803", "U+DD58">>,
    <<"U+D803", "U+DD59">>, <<"U+D803", "U+DD5A">>, <<"U+D803", "U+DD5B">>,
    <<"U+D803", "U+DD5C">>, <<"U+D803", "U+DD5D">>, <<"U+D803", "U+DD5E">>,
    <<"U+D803", "U+DD5F">>, <<"U+D803", "U+DD60">>, <<"U+D803", "U+DD61">>,
    <<"U+D803", "U+DD62">>, <<"U+D803", "U+DD63">>, <<"U+D803", "U+DD64">>,
    <<"U+D803", "U+DD65">>, <<"U+D806", "U+DCA0">>, <<"U+D806", "U+DCA1">>,
    <<"U+D806", "U+DCA2">>, <<"U+D806", "U+DCA3">>, <<"U+D806", "U+DCA4">>,
    <<"U+D806", "U+DCA5">>, <<"U+D806", "U+DCA6">>, <<"U+D806", "U+DCA7">>,
    <<"U+D806", "U+DCA8">>, <<"U+D806", "U+DCA9">>, <<"U+D806", "U+DCAA">>,
    <<"U+D806", "U+DCAB">>, <<"U+D806", "U+DCAC">>, <<"U+D806", "U+DCAD">>,
    <<"U+D806", "U+DCAE">>, <<"U+D806", "U+DCAF">>, <<"U+D806", "U+DCB0">>,
    <<"U+D806", "U+DCB1">>, <<"U+D806", "U+DCB2">>, <<"U+D806", "U+DCB3">>,
    <<"U+D806", "U+DCB4">>, <<"U+D806", "U+DCB5">>, <<"U+D806", "U+DCB6">>,
    <<"U+D806", "U+DCB7">>, <<"U+D806", "U+DCB8">>, <<"U+D806", "U+DCB9">>,
    <<"U+D806", "U+DCBA">>, <<"U+D806", "U+DCBB">>, <<"U+D806", "U+DCBC">>,
    <<"U+D806", "U+DCBD">>, <<"U+D806", "U+DCBE">>, <<"U+D806", "U+DCBF">>,
    <<"U+D81B", "U+DE40">>, <<"U+D81B", "U+DE41">>, <<"U+D81B", "U+DE42">>,
    <<"U+D81B", "U+DE43">>, <<"U+D81B", "U+DE44">>, <<"U+D81B", "U+DE45">>,
    <<"U+D81B", "U+DE46">>, <<"U+D81B", "U+DE47">>, <<"U+D81B", "U+DE48">>,
    <<"U+D81B", "U+DE49">>, <<"U+D81B", "U+DE4A">>, <<"U+D81B", "U+DE4B">>,
    <<"U+D81B", "U+DE4C">>, <<"U+D81B", "U+DE4D">>, <<"U+D81B", "U+DE4E">>,
    <<"U+D81B", "U+DE4F">>, <<"U+D81B", "U+DE50">>, <<"U+D81B", "U+DE51">>,
    <<"U+D81B", "U+DE52">>, <<"U+D81B", "U+DE53">>, <<"U+D81B", "U+DE54">>,
    <<"U+D81B", "U+DE55">>, <<"U+D81B", "U+DE56">>, <<"U+D81B", "U+DE57">>,
    <<"U+D81B", "U+DE58">>, <<"U+D81B", "U+DE59">>, <<"U+D81B", "U+DE5A">>,
    <<"U+D81B", "U+DE5B">>, <<"U+D81B", "U+DE5C">>, <<"U+D81B", "U+DE5D">>,
    <<"U+D81B", "U+DE5E">>, <<"U+D81B", "U+DE5F">>, <<"U+D81B", "U+DEA0">>,
    <<"U+D81B", "U+DEA1">>, <<"U+D81B", "U+DEA2">>, <<"U+D81B", "U+DEA3">>,
    <<"U+D81B", "U+DEA4">>, <<"U+D81B", "U+DEA5">>, <<"U+D81B", "U+DEA6">>,
    <<"U+D81B", "U+DEA7">>, <<"U+D81B", "U+DEA8">>, <<"U+D81B", "U+DEA9">>,
    <<"U+D81B", "U+DEAA">>, <<"U+D81B", "U+DEAB">>, <<"U+D81B", "U+DEAC">>,
    <<"U+D81B", "U+DEAD">>, <<"U+D81B", "U+DEAE">>, <<"U+D81B", "U+DEAF">>,
    <<"U+D81B", "U+DEB0">>, <<"U+D81B", "U+DEB1">>, <<"U+D81B", "U+DEB2">>,
    <<"U+D81B", "U+DEB3">>, <<"U+D81B", "U+DEB4">>, <<"U+D81B", "U+DEB5">>,
    <<"U+D81B", "U+DEB6">>, <<"U+D81B", "U+DEB7">>, <<"U+D81B", "U+DEB8">>,
    <<"U+D83A", "U+DD00">>, <<"U+D83A", "U+DD01">>, <<"U+D83A", "U+DD02">>,
    <<"U+D83A", "U+DD03">>, <<"U+D83A", "U+DD04">>, <<"U+D83A", "U+DD05">>,
    <<"U+D83A", "U+DD06">>, <<"U+D83A", "U+DD07">>, <<"U+D83A", "U+DD08">>,
    <<"U+D83A", "U+DD09">>, <<"U+D83A", "U+DD0A">>, <<"U+D83A", "U+DD0B">>,
    <<"U+D83A", "U+DD0C">>, <<"U+D83A", "U+DD0D">>, <<"U+D83A", "U+DD0E">>,
    <<"U+D83A", "U+DD0F">>, <<"U+D83A", "U+DD10">>, <<"U+D83A", "U+DD11">>,
    <<"U+D83A", "U+DD12">>, <<"U+D83A", "U+DD13">>, <<"U+D83A", "U+DD14">>,
    <<"U+D83A", "U+DD15">>, <<"U+D83A", "U+DD16">>, <<"U+D83A", "U+DD17">>,
    <<"U+D83A", "U+DD18">>, <<"U+D83A", "U+DD19">>, <<"U+D83A", "U+DD1A">>,
    <<"U+D83A", "U+DD1B">>, <<"U+D83A", "U+DD1C">>, <<"U+D83A", "U+DD1D">>,
    <<"U+D83A", "U+DD1E">>, <<"U+D83A", "U+DD1F">>, <<"U+D83A", "U+DD20">>,
    <<"U+D83A", "U+DD21">>>>

\* the code units with the property Case_Ignorable (among those written as
\* themselves are the apostrophe, the full stop, the colon and the soft
\* hyphen U+00AD), and the code units with the property Cased that are not
\* in the tables above
CaseIgnorable ==
  {"'", ".", ":", "^", "U+0060", "¨", "­", "¯", "´", "·", "¸", "U+02B0",
   "U+02B1", "U+02B2", "U+02B3", "U+02B4", "U+02B5", "U+02B6", "U+02B7",
   "U+02B8", "U+02B9", "U+02BA", "U+02BB", "U+02BC", "U+02BD", "U+02BE",
   "U+02BF", "U+02C0", "U+02C1", "U+02C2", "U+02C3", "U+02C4", "U+02C5",
   "U+02C6", "U+02C7", "U+02C8", "U+02C9", "U+02CA", "U+02CB", "U+02CC",
   "U+02CD", "U+02CE", "U+02CF", "U+02D0", "U+02D1", "U+02D2", "U+02D3",
   "U+02D4", "U+02D5", "U+02D6", "U+02D7", "U+02D8", "U+02D9", "U+02DA",
   "U+02DB", "U+02DC", "U+02DD", "U+02DE", "U+02DF", "U+02E0", "U+02E1",
   "U+02E2", "U+02E3", "U+02E4", "U+02E5", "U+02E6", "U+02E7", "U+02E8",
   "U+02E9", "U+02EA", "U+02EB", "U+02EC", "U+02ED", "U+02EE", "U+02EF",
   "U+02F0", "U+02F1", "U+02F2", "U+02F3", "U+02F4", "U+02F5", "U+02F6",
   "U+02F7", "U+02F8", "U+02F9", "U+02FA", "U+02FB", "U+02FC", "U+02FD",
   "U+02FE", "U+02FF", "U+0300", "U+0301", "U+0302", "U+0303", "U+0304",
   "U+0305", "U+0306", "U+0307", "U+0308", "U+0309", "U+030A", "U+030B",
   "U+030C", "U+030D", "U+030E", "U+030F", "U+0310", "U+0311", "U+0312",
   "U+0313", "U+0314", "U+0315", "U+0316", "U+0317", "U+0318", "U+0319",
   "U+031A", "U+031B", "U+031C", "U+031D", "U+031E", "U+031F", "U+0320",
   "U+0321", "U+0322", "U+0323", "U+0324", "U+0325", "U+0326", "U+0327",
   "U+0328", "U+0329", "U+032A", "U+032B", "U+032C", "U+032D", "U+032E",
   "U+032F", "U+0330", "U+0331", "U+0332", "U+0333", "U+0334", "U+0335",
   "U+0336", "U+0337", "U+0338", "U+0339", "U+033A", "U+033B", "U+033C",
   "U+033D", "U+033E", "U+033F", "U+0340", "U+0341", "U+0342", "U+0343",
   "U+0344", "U+0345", "U+0346", "U+0347", "U+0348", "U+0349", "U+034A",
   "U+034B", "U+034C", "U+034D", "U+034E", "U+034F", "U+0350", "U+0351",
   "U+0352", "U+0353", "U+0354", "U+0355", "U+0356", "U+0357", "U+0358",
   "U+0359", "U+035A", "U+035B", "U+035C", "U+035D", "U+035E", "U+035F",
   "U+0360", "U+0361", "U+0362", "U+0363", "U+0364", "U+0365", "U+0366",
   "U+0367", "U+0368", "U+0369", "U+036A", "U+036B", "U+036C", "U+036D",
   "U+036E", "U+036F", "U+0374", "U+0375", "U+037A", "U+0384", "U+0385",
   "U+0387", "U+0483", "U+0484", "U+0485", "U+0486", "U+0487", "U+0488",
   "U+0489", "U+0559", "U+055F", "U+0591", "U+0592", "U+0593", "U+0594",
   "U+0595", "U+0596", "U+0597", "U+0598", "U+0599", "U+059A", "U+059B",
   "U+059C", "U+059D", "U+059E", "U+059F", "U+05A0", "U+05A1", "U+05A2",
   "U+05A3", "U+05A4", "U+05A5", "U+05A6", "U+05A7", "U+05A8", "U+05A9",
   "U+05AA", "U+05AB", "U+05AC", "U+05AD", "U+05AE", "U+05AF", "U+05B0",
   "U+05B1", "U+05B2", "U+05B3", "U+05B4", "U+05B5", "U+05B6", "U+05B7",
   "U+05B8", "U+05B9", "U+05BA", "U+05BB", "U+05BC", "U+05BD", "U+05BF",
   "U+05C1", "U+05C2", "U+05C4", "U+05C5", "U+05C7", "U+05F4", "U+0600",
   "U+0601", "U+0602", "U+0603", "U+0604", "U+0605", "U+0610", "U+0611",
   "U+0612", "U+0613", "U+0614", "U+0615", "U+0616", "U+0617", "U+0618",
   "U+0619", "U+061A", "U+061C", "U+0640", "U+064B", "U+064C", "U+064D",
   "U+064E", "U+064F", "U+0650", "U+0651", "U+0652", "U+0653", "U+0654",
   "U+0655", "U+0656", "U+0657", "U+0658", "U+0659", "U+065A", "U+065B",
   "U+065C", "U+065D", "U+065E", "U+065F", "U+0670", "U+06D6", "U+06D7",
   "U+06D8", "U+06D9", "U+06DA", "U+06DB", "U+06DC", "U+06DD", "U+06DF",
   "U+06E0", "U+06E1", "U+06E2", "U+06E3", "U+06E4", "U+06E5", "U+06E6",
   "U+06E7", "U+06E8", "U+06EA", "U+06EB", "U+06EC", "U+06ED", "U+070F",
   "U+0711", "U+0730", "U+0731", "U+0732", "U+0733", "U+0734", "U+0735",
   "U+0736", "U+0737", "U+0738", "U+0739", "U+073A", "U+073B", "U+073C",
   "U+073D", "U+073E", "U+073F", "U+0740", "U+0741", "U+0742", "U+0743",
   "U+0744", "U+0745", "U+0746", "U+0747", "U+0748", "U+0749", "U+074A",
   "U+07A6", "U+07A7", "U+07A8", "U+07A9", "U+07AA", "U+07AB", "U+07AC",
   "U+07AD", "U+07AE", "U+07AF", "U+07B0", "U+07EB", "U+07EC", "U+07ED",
   "U+07EE", "U+07EF", "U+07F0", "U+07F1", "U+07F2", "U+07F3", "U+07F4",
   "U+07F5", "U+07FA", "U+07FD", "U+0816", "U+0817", "U+0818", "U+0819",
   "U+081A", "U+081B", "U+081C", "U+081D", "U+081E", "U+081F", "U+0820",
   "U+0821", "U+0822", "U+0823", "U+0824", "U+0825", "U+0826", "U+0827",
   "U+0828", "U+0829", "U+082A", "U+082B", "U+082C", "U+082D", "U+0859",
   "U+085A", "U+085B", "U+0888", "U+0890", "U+0891", "U+0897", "U+0898",
   "U+0899", "U+089A", "U+089B", "U+089C", "U+089D", "U+089E", "U+089F",
   "U+08C9", "U+08CA", "U+08CB", "U+08CC", "U+08CD", "U+08CE", "U+08CF",
   "U+08D0", "U+08D1", "U+08D2", "U+08D3", "U+08D4", "U+08D5", "U+08D6",
   "U+08D7", "U+08D8", "U+08D9", "U+08DA", "U+08DB", "U+08DC", "U+08DD",
   "U+08DE", "U+08DF", "U+08E0", "U+08E1", "U+08E2", "U+08E3", "U+08E4",
   "U+08E5", "U+08E6", "U+08E7", "U+08E8", "U+08E9", "U+08EA", "U+08EB",
   "U+08EC", "U+08ED", "U+08EE", "U+08EF", "U+08F0", "U+08F1", "U+08F2",
   "U+08F3", "U+08F4", "U+08F5", "U+08F6", "U+08F7", "U+08F8", "U+08F9",
   "U+08FA", "U+08FB", "U+08FC", "U+08FD", "U+08FE", "U+08FF", "U+0900",
   "U+0901", "U+0902", "U+093A", "U+093C", "U+0941", "U+0942", "U+0943",
   "U+0944", "U+0945", "U+0946", "U+0947", "U+0948", "U+094D", "U+0951",
   "U+0952", "U+0953", "U+0954", "U+0955", "U+0956", "U+0957", "U+0962",
   "U+0963", "U+0971", "U+0981", "U+09BC", "U+09C1", "U+09C2", "U+09C3",
   "U+09C4", "U+09CD", "U+09E2", "U+09E3", "U+09FE", "U+0A01", "U+0A02",
   "U+0A3C", "U+0A41", "U+0A42", "U+0A47", "U+0A48", "U+0A4B", "U+0A4C",
   "U+0A4D", "U+0A51", "U+0A70", "U+0A71", "U+0A75", "U+0A81", "U+0A82",
   "U+0ABC", "U+0AC1", "U+0AC2", "U+0AC3", "U+0AC4", "U+0AC5", "U+0AC7",
   "U+0AC8", "U+0ACD", "U+0AE2", "U+0AE3", "U+0AFA", "U+0AFB", "U+0AFC",
   "U+0AFD", "U+0AFE", "U+0AFF", "U+0B01", "U+0B3C", "U+0B3F", "U+0B41",
   "U+0B42", "U+0B43", "U+0B44", "U+0B4D", "U+0B55", "U+0B56", "U+0B62",
   "U+0B63", "U+0B82", "U+0BC0", "U+0BCD", "U+0C00", "U+0C04", "U+0C3C",
   "U+0C3E", "U+0C3F", "U+0C40", "U+0C46", "U+0C47", "U+0C48", "U+0C4A",
   "U+0C4B", "U+0C4C", "U+0C4D", "U+0C55", "U+0C56", "U+0C62", "U+0C63",
   "U+0C81", "U+0CBC", "U+0CBF", "U+0CC6", "U+0CCC", "U+0CCD", "U+0CE2",
   "U+0CE3", "U+0D00", "U+0D01", "U+0D3B", "U+0D3C", "U+0D41", "U+0D42",
   "U+0D43", "U+0D44", "U+0D4D", "U+0D62", "U+0D63", "U+0D81", "U+0DCA",
   "U+0DD2", "U+0DD3", "U+0DD4", "U+0DD6", "U+0E31", "U+0E34", "U+0E35",
   "U+0E36", "U+0E37", "U+0E38", "U+0E39", "U+0E3A", "U+0E46", "U+0E47",
   "U+0E48", "U+0E49", "U+0E4A", "U+0E4B", "U+0E4C", "U+0E4D", "U+0E4E",
   "U+0EB1", "U+0EB4", "U+0EB5", "U+0EB6", "U+0EB7", "U+0EB8", "U+0EB9",
   "U+0EBA", "U+0EBB", "U+0EBC", "U+0EC6", "U+0EC8", "U+0EC9", "U+0ECA",
   "U+0ECB", "U+0ECC", "U+0ECD", "U+0ECE", "U+0F18", "U+0F19", "U+0F35",
   "U+0F37", "U+0F39", "U+0F71", "U+0F72", "U+0F73", "U+0F74", "U+0F75",
   "U+0F76", "U+0F77", "U+0F78", "U+0F79", "U+0F7A", "U+0F7B", "U+0F7C",
   "U+0F7D", "U+0F7E", "U+0F80", "U+0F81", "U+0F82", "U+0F83", "U+0F84",
   "U+0F86", "U+0F87", "U+0F8D", "U+0F8E", "U+0F8F", "U+0F90", "U+0F91",
   "U+0F92", "U+0F93", "U+0F94", "U+0F95", "U+0F96", "U+0F97", "U+0F99",
   "U+0F9A", "U+0F9B", "U+0F9C", "U+0F9D", "U+0F9E", "U+0F9F", "U+0FA0",
   "U+0FA1", "U+0FA2", "U+0FA3", "U+0FA4", "U+0FA5", "U+0FA6", "U+0FA7",
   "U+0FA8", "U+0FA9", "U+0FAA", "U+0FAB", "U+0FAC", "U+0FAD", "U+0FAE",
   "U+0FAF", "U+0FB0", "U+0FB1", "U+0FB2", "U+0FB3", "U+0FB4", "U+0FB5",
   "U+0FB6", "U+0FB7", "U+0FB8", "U+0FB9", "U+0FBA", "U+0FBB", "U+0FBC",
   "U+0FC6", "U+102D", "U+102E", "U+102F", "U+1030", "U+1032", "U+1033",
   "U+1034", "U+1035", "U+1036", "U+1037", "U+1039", "U+103A", "U+103D",
   "U+103E", "U+1058", "U+1059", "U+105E", "U+105F", "U+1060", "U+1071",
   "U+1072", "U+1073", "U+1074", "U+1082", "U+1085", "U+1086", "U+108D",
   "U+109D", "U+10FC", "U+135D", "U+135E", "U+135F", "U+1712", "U+1713",
   "U+1714", "U+1732", "U+1733", "U+1752", "U+1753", "U+1772", "U+1773",
   "U+17B4", "U+17B5", "U+17B7", "U+17B8", "U+17B9", "U+17BA", "U+17BB",
   "U+17BC", "U+17BD", "U+17C6", "U+17C9", "U+17CA", "U+17CB", "U+17CC",
   "U+17CD", "U+17CE", "U+17CF", "U+17D0", "U+17D1", "U+17D2", "U+17D3",
   "U+17D7", "U+17DD", "U+180B", "U+180C", "U+180D", "U+180E", "U+180F",
   "U+1843", "U+1885", "U+1886", "U+18A9", "U+1920", "U+1921", "U+1922",
   "U+1927", "U+1928", "U+1932", "U+1939", "U+193A", "U+193B", "U+1A17",
   "U+1A18", "U+1A1B", "U+1A56", "U+1A58", "U+1A59", "U+1A5A", "U+1A5B",
   "U+1A5C", "U+1A5D", "U+1A5E", "U+1A60", "U+1A62", "U+1A65", "U+1A66",
   "U+1A67", "U+1A68", "U+1A69", "U+1A6A", "U+1A6B", "U+1A6C", "U+1A73",
   "U+1A74", "U+1A75", "U+1A76", "U+1A77", "U+1A78", "U+1A79", "U+1A7A",
   "U+1A7B", "U+1A7C", "U+1A7F", "U+1AA7", "U+1AB0", "U+1AB1", "U+1AB2",
   "U+1AB3", "U+1AB4", "U+1AB5", "U+1AB6", "U+1AB7", "U+1AB8", "U+1AB9",
   "U+1ABA", "U+1ABB", "U+1ABC", "U+1ABD", "U+1ABE", "U+1ABF", "U+1AC0",
   "U+1AC1", "U+1AC2", "U+1AC3", "U+1AC4", "U+1AC5", "U+1AC6", "U+1AC7",
   "U+1AC8", "U+1AC9", "U+1ACA", "U+1ACB", "U+1ACC", "U+1ACD", "U+1ACE",
   "U+1ACF", "U+1AD0", "U+1AD1", "U+1AD2", "U+1AD3", "U+1AD4", "U+1AD5",
   "U+1AD6", "U+1AD7", "U+1AD8", "U+1AD9", "U+1ADA", "U+1ADB", "U+1ADC",
   "U+1ADD", "U+1AE0", "U+1AE1", "U+1AE2", "U+1AE3", "U+1AE4", "U+1AE5",
   "U+1AE6", "U+1AE7", "U+1AE8", "U+1AE9", "U+1AEA", "U+1AEB", "U+1B00",
   "U+1B01", "U+1B02", "U+1B03", "U+1B34", "U+1B36", "U+1B37", "U+1B38",
   "U+1B39", "U+1B3A", "U+1B3C", "U+1B42", "U+1B6B", "U+1B6C", "U+1B6D",
   "U+1B6E", "U+1B6F", "U+1B70", "U+1B71", "U+1B72", "U+1B73", "U+1B80",
   "U+1B81", "U+1BA2", "U+1BA3", "U+1BA4", "U+1BA5", "U+1BA8", "U+1BA9",
   "U+1BAB", "U+1BAC", "U+1BAD", "U+1BE6", "U+1BE8", "U+1BE9", "U+1BED",
   "U+1BEF", "U+1BF0", "U+1BF1", "U+1C2C", "U+1C2D", "U+1C2E", "U+1C2F",
   "U+1C30", "U+1C31", "U+1C32", "U+1C33", "U+1C36", "U+1C37", "U+1C78",
   "U+1C79", "U+1C7A", "U+1C7B", "U+1C7C", "U+1C7D", "U+1CD0", "U+1CD1",
   "U+1CD2", "U+1CD4", "U+1CD5", "U+1CD6", "U+1CD7", "U+1CD8", "U+1CD9",
   "U+1CDA", "U+1CDB", "U+1CDC", "U+1CDD", "U+1CDE", "U+1CDF", "U+1CE0",
   "U+1CE2", "U+1CE3", "U+1CE4", "U+1CE5", "U+1CE6", "U+1CE7", "U+1CE8",
   "U+1CED", "U+1CF4", "U+1CF8", "U+1CF9", "U+1D2C", "U+1D2D", "U+1D2E",
   "U+1D2F", "U+1D30", "U+1D31", "U+1D32", "U+1D33", "U+1D34", "U+1D35",
   "U+1D36", "U+1D37", "U+1D38", "U+1D39", "U+1D3A", "U+1D3B", "U+1D3C",
   "U+1D3D", "U+1D3E", "U+1D3F", "U+1D40", "U+1D41", "U+1D42", "U+1D43",
   "U+1D44", "U+1D45", "U+1D46", "U+1D47", "U+1D48", "U+1D49", "U+1D4A",
   "U+1D4B", "U+1D4C", "U+1D4D", "U+1D4E", "U+1D4F", "U+1D50", "U+1D51",
   "U+1D52", "U+1D53", "U+1D54", "U+1D55", "U+1D56", "U+1D57", "U+1D58",
   "U+1D59", "U+1D5A", "U+1D5B", "U+1D5C", "U+1D5D", "U+1D5E", "U+1D5F",
   "U+1D60", "U+1D61", "U+1D62", "U+1D63", "U+1D64", "U+1D65", "U+1D66",
   "U+1D67", "U+1D68", "U+1D69", "U+1D6A", "U+1D78", "U+1D9B", "U+1D9C",
   "U+1D9D", "U+1D9E", "U+1D9F", "U+1DA0", "U+1DA1", "U+1DA2", "U+1DA3",
   "U+1DA4", "U+1DA5", "U+1DA6", "U+1DA7", "U+1DA8", "U+1DA9", "U+1DAA",
   "U+1DAB", "U+1DAC", "U+1DAD", "U+1DAE", "U+1DAF", "U+1DB0", "U+1DB1",
   "U+1DB2", "U+1DB3", "U+1DB4", "U+1DB5", "U+1DB6", "U+1DB7", "U+1DB8",
   "U+1DB9", "U+1DBA", "U+1DBB", "U+1DBC", "U+1DBD", "U+1DBE", "U+1DBF",
   "U+1DC0", "U+1DC1", "U+1DC2", "U+1DC3", "U+1DC4", "U+1DC5", "U+1DC6",
   "U+1DC7", "U+1DC8", "U+1DC9", "U+1DCA", "U+1DCB", "U+1DCC", "U+1DCD",
   "U+1DCE", "U+1DCF", "U+1DD0", "U+1DD1", "U+1DD2", "U+1DD3", "U+1DD4",
   "U+1DD5", "U+1DD6", "U+1DD7", "U+1DD8", "U+1DD9", "U+1DDA", "U+1DDB",
   "U+1DDC", "U+1DDD", "U+1DDE", "U+1DDF", "U+1DE0", "U+1DE1", "U+1DE2",
   "U+1DE3", "U+1DE4", "U+1DE5", "U+1DE6", "U+1DE7", "U+1DE8", "U+1DE9",
   "U+1DEA", "U+1DEB", "U+1DEC", "U+1DED", "U+1DEE", "U+1DEF", "U+1DF0",
   "U+1DF1", "U+1DF2", "U+1DF3", "U+1DF4", "U+1DF5", "U+1DF6", "U+1DF7",
   "U+1DF8", "U+1DF9", "U+1DFA", "U+1DFB", "U+1DFC", "U+1DFD", "U+1DFE",
   "U+1DFF", "U+1FBD", "U+1FBF", "U+1FC0", "U+1FC1", "U+1FCD", "U+1FCE",
   "U+1FCF", "U+1FDD", "U+1FDE", "U+1FDF", "U+1FED", "U+1FEE", "U+1FEF",
   "U+1FFD", "U+1FFE", "U+200B", "U+200C", "U+200D", "U+200E", "U+200F",
   "U+2018", "U+2019", "U+2024", "U+2027", "U+202A", "U+202B", "U+202C",
   "U+202D", "U+202E", "U+2060", "U+2061", "U+2062", "U+2063", "U+2064",
   "U+2066", "U+2067", "U+2068", "U+2069", "U+206A", "U+206B", "U+206C",
   "U+206D", "U+206E", "U+206F", "U+2071", "U+207F", "U+2090", "U+2091",
   "U+2092", "U+2093", "U+2094", "U+2095", "U+2096", "U+2097", "U+2098",
   "U+2099", "U+209A", "U+209B", "U+209C", "U+20D0", "U+20D1", "U+20D2",
   "U+20D3", "U+20D4", "U+20D5", "U+20D6", "U+20D7", "U+20D8", "U+20D9",
   "U+20DA", "U+20DB", "U+20DC", "U+20DD", "U+20DE", "U+20DF", "U+20E0",
   "U+20E1", "U+20E2", "U+20E3", "U+20E4", "U+20E5", "U+20E6", "U+20E7",
   "U+20E8", "U+20E9", "U+20EA", "U+20EB", "U+20EC", "U+20ED", "U+20EE",
   "U+20EF", "U+20F0", "U+2C7C", "U+2C7D", "U+2CEF", "U+2CF0", "U+2CF1",
   "U+2D6F", "U+2D7F", "U+2DE0", "U+2DE1", "U+2DE2", "U+2DE3", "U+2DE4",
   "U+2DE5", "U+2DE6", "U+2DE7", "U+2DE8", "U+2DE9", "U+2DEA", "U+2DEB",
   "U+2DEC", "U+2DED", "U+2DEE", "U+2DEF", "U+2DF0", "U+2DF1", "U+2DF2",
   "U+2DF3", "U+2DF4", "U+2DF5", "U+2DF6", "U+2DF7", "U+2DF8", "U+2DF9",
   "U+2DFA", "U+2DFB", "U+2DFC", "U+2DFD", "U+2DFE", "U+2DFF", "U+2E2F",
   "U+3005", "U+302A", "U+302B", "U+302C", "U+302D", "U+3031", "U+3032",
   "U+3033", "U+3034", "U+3035", "U+303B", "U+3099", "U+309A", "U+309B",
   "U+309C", "U+309D", "U+309E", "U+30FC", "U+30FD", "U+30FE", "U+A015",
   "U+A4F8", "U+A4F9", "U+A4FA", "U+A4FB", "U+A4FC", "U+A4FD", "U+A60C",
   "U+A66F", "U+A670", "U+A671", "U+A672", "U+A674", "U+A675", "U+A676",
   "U+A677", "U+A678", "U+A679", "U+A67A", "U+A67B", "U+A67C", "U+A67D",
   "U+A67F", "U+A69C", "U+A69D", "U+A69E", "U+A69F", "U+A6F0", "U+A6F1",
   "U+A700", "U+A701", "U+A702", "U+A703", "U+A704", "U+A705", "U+A706",
   "U+A707", "U+A708", "U+A709", "U+A70A", "U+A70B", "U+A70C", "U+A70D",
   "U+A70E", "U+A70F", "U+A710", "U+A711", "U+A712", "U+A713", "U+A714",
   "U+A715", "U+A716", "U+A717", "U+A718", "U+A719", "U+A71A", "U+A71B",
   "U+A71C", "U+A71D", "U+A71E", "U+A71F", "U+A720", "U+A721", "U+A770",
   "U+A788", "U+A789", "U+A78A", "U+A7F1", "U+A7F2", "U+A7F3", "U+A7F4",
   "U+A7F8", "U+A7F9", "U+A802", "U+A806", "U+A80B", "U+A825", "U+A826",
   "U+A82C", "U+A8C4", "U+A8C5", "U+A8E0", "U+A8E1", "U+A8E2", "U+A8E3",
   "U+A8E4", "U+A8E5", "U+A8E6", "U+A8E7", "U+A8E8", "U+A8E9", "U+A8EA",
   "U+A8EB", "U+A8EC", "U+A8ED", "U+A8EE", "U+A8EF", "U+A8F0", "U+A8F1",
   "U+A8FF", "U+A926", "U+A927", "U+A928", "U+A929", "U+A92A", "U+A92B",
   "U+A92C", "U+A92D", "U+A947", "U+A948", "U+A949", "U+A94A", "U+A94B",
   "U+A94C", "U+A94D", "U+A94E", "U+A94F", "U+A950", "U+A951", "U+A980",
   "U+A981", "U+A982", "U+A9B3", "U+A9B6", "U+A9B7", "U+A9B8", "U+A9B9",
   "U+A9BC", "U+A9BD", "U+A9CF", "U+A9E5", "U+A9E6", "U+AA29", "U+AA2A",
   "U+AA2B", "U+AA2C", "U+AA2D", "U+AA2E", "U+AA31", "U+AA32", "U+AA35",
   "U+AA36", "U+AA43", "U+AA4C", "U+AA70", "U+AA7C", "U+AAB0", "U+AAB2",
   "U+AAB3", "U+AAB4", "U+AAB7", "U+AAB8", "U+AABE", "U+AABF", "U+AAC1",
   "U+AADD", "U+AAEC", "U+AAED", "U+AAF3", "U+AAF4", "U+AAF6", "U+AB5B",
   "U+AB5C", "U+AB5D", "U+AB5E", "U+AB5F", "U+AB69", "U+AB6A", "U+AB6B",
   "U+ABE5", "U+ABE8", "U+ABED", "U+FB1E", "U+FBB2", "U+FBB3", "U+FBB4",
   "U+FBB5", "U+FBB6", "U+FBB7", "U+FBB8", "U+FBB9", "U+FBBA", "U+FBBB",
   "U+FBBC", "U+FBBD", "U+FBBE", "U+FBBF", "U+FBC0", "U+FBC1", "U+FBC2",
   "U+FE00", "U+FE01", "U+FE02", "U+FE03", "U+FE04", "U+FE05", "U+FE06",
   "U+FE07", "U+FE08", "U+FE09", "U+FE0A", "U+FE0B", "U+FE0C", "U+FE0D",
   "U+FE0E", "U+FE0F", "U+FE13", "U+FE20", "U+FE21", "U+FE22", "U+FE23",
   "U+FE24", "U+FE25", "U+FE26", "U+FE27", "U+FE28", "U+FE29", "U+FE2A",
   "U+FE2B", "U+FE2C", "U+FE2D", "U+FE2E", "U+FE2F", "U+FE52", "U+FE55",
   "U+FEFF", "U+FF07", "U+FF0E", "U+FF1A", "U+FF3E", "U+FF40", "U+FF70",
   "U+FF9E", "U+FF9F", "U+FFE3", "U+FFF9", "U+FFFA", "U+FFFB"}

OtherCased ==
  {"ª", "º", "U+0138", "U+018D", "U+01AA", "U+01AB", "U+01BA", "U+01BE",
   "U+0221", "U+0234", "U+0235", "U+0236", "U+0237", "U+0238", "U+0239",
   "U+0255", "U+0258", "U+025A", "U+025D", "U+025E", "U+025F", "U+0262",
   "U+0267", "U+026D", "U+026E", "U+0270", "U+0273", "U+0274", "U+0276",
   "U+0277", "U+0278", "U+0279", "U+027A", "U+027B", "U+027C", "U+027E",
   "U+027F", "U+0281", "U+0284", "U+0285", "U+0286", "U+028D", "U+028E",
   "U+028F", "U+0290", "U+0291", "U+0293", "U+0296", "U+0297", "U+0298",
   "U+0299", "U+029A", "U+029B", "U+029C", "U+029F", "U+02A0", "U+02A1",
   "U+02A2", "U+02A3", "U+02A4", "U+02A5", "U+02A6", "U+02A7", "U+02A8",
   "U+02A9", "U+02AA", "U+02AB", "U+02AC", "U+02AD", "U+02AE", "U+02AF",
   "U+03D2", "U+03D3", "U+03D4", "U+03FC", "U+0560", "U+0588", "U+1D00",
   "U+1D01", "U+1D02", "U+1D03", "U+1D04", "U+1D05", "U+1D06", "U+1D07",
   "U+1D08", "U+1D09", "U+1D0A", "U+1D0B", "U+1D0C", "U+1D0D", "U+1D0E",
   "U+1D0F", "U+1D10", "U+1D11", "U+1D12", "U+1D13", "U+1D14", "U+1D15",
   "U+1D16", "U+1D17", "U+1D18", "U+1D19", "U+1D1A", "U+1D1B", "U+1D1C",
   "U+1D1D", "U+1D1E", "U+1D1F", "U+1D20", "U+1D21", "U+1D22", "U+1D23",
   "U+1D24", "U+1D25", "U+1D26", "U+1D27", "U+1D28", "U+1D29", "U+1D2A",
   "U+1D2B", "U+1D6B", "U+1D6C", "U+1D6D", "U+1D6E", "U+1D6F", "U+1D70",
   "U+1D71", "U+1D72", "U+1D73", "U+1D74", "U+1D75", "U+1D76", "U+1D77",
   "U+1D7A", "U+1D7B", "U+1D7C", "U+1D7E", "U+1D7F", "U+1D80", "U+1D81",
   "U+1D82", "U+1D83", "U+1D84", "U+1D85", "U+1D86", "U+1D87", "U+1D88",
   "U+1D89", "U+1D8A", "U+1D8B", "U+1D8C", "U+1D8D", "U+1D8F", "U+1D90",
   "U+1D91", "U+1D92", "U+1D93", "U+1D94", "U+1D95", "U+1D96", "U+1D97",
   "U+1D98", "U+1D99", "U+1D9A", "U+1E9C", "U+1E9D", "U+1E9F", "U+2102",
   "U+2107", "U+210A", "U+210B", "U+210C", "U+210D", "U+210E", "U+210F",
   "U+2110", "U+2111", "U+2112", "U+2113", "U+2115", "U+2119", "U+211A",
   "U+211B", "U+211C", "U+211D", "U+2124", "U+2128", "U+212C", "U+212D",
   "U+212F", "U+2130", "U+2131", "U+2133", "U+2134", "U+2139", "U+213C",
   "U+213D", "U+213E", "U+213F", "U+2145", "U+2146", "U+2147", "U+2148",
   "U+2149", "U+2C71", "U+2C74", "U+2C77", "U+2C78", "U+2C79", "U+2C7A",
   "U+2C7B", "U+2CE4", "U+A730", "U+A731", "U+A771", "U+A772", "U+A773",
   "U+A774", "U+A775", "U+A776", "U+A777", "U+A778", "U+A78E", "U+A795",
   "U+A7AF", "U+A7FA", "U+AB30", "U+AB31", "U+AB32", "U+AB33", "U+AB34",
   "U+AB35", "U+AB36", "U+AB37", "U+AB38", "U+AB39", "U+AB3A", "U+AB3B",
   "U+AB3C", "U+AB3D", "U+AB3E", "U+AB3F", "U+AB40", "U+AB41", "U+AB42",
   "U+AB43", "U+AB44", "U+AB45", "U+AB46", "U+AB47", "U+AB48", "U+AB49",
   "U+AB4A", "U+AB4B", "U+AB4C", "U+AB4D", "U+AB4E", "U+AB4F", "U+AB50",
   "U+AB51", "U+AB52", "U+AB54", "U+AB55", "U+AB56", "U+AB57", "U+AB58",
   "U+AB59", "U+AB5A", "U+AB60", "U+AB61", "U+AB62", "U+AB63", "U+AB64",
   "U+AB65", "U+AB66", "U+AB67", "U+AB68"}

\* the same outside the Basic Multilingual Plane: a high surrogate with the
\* low surrogates that follow it in such a character
AstralCaseIgnorable ==
  {<<"U+D800", {"U+DDFD", "U+DEE0", "U+DF76", "U+DF77", "U+DF78", "U+DF79", "U+DF7A"}>>,
   <<"U+D801", {"U+DF80", "U+DF81", "U+DF82", "U+DF83", "U+DF84", "U+DF85", "U+DF87", "U+DF88", "U+DF89", "U+DF8A", "U+DF8B", "U+DF8C", "U+DF8D", "U+DF8E", "U+DF8F", "U+DF90", "U+DF91", "U+DF92", "U+DF93", "U+DF94", "U+DF95", "U+DF96", "U+DF97", "U+DF98", "U+DF99", "U+DF9A", "U+DF9B", "U+DF9C", "U+DF9D", "U+DF9E", "U+DF9F", "U+DFA0", "U+DFA1", "U+DFA2", "U+DFA3", "U+DFA4", "U+DFA5", "U+DFA6", "U+DFA7", "U+DFA8", "U+DFA9", "U+DFAA", "U+DFAB", "U+DFAC", "U+DFAD", "U+DFAE", "U+DFAF", "U+DFB0", "U+DFB2", "U+DFB3", "U+DFB4", "U+DFB5", "U+DFB6", "U+DFB7", "U+DFB8", "U+DFB9", "U+DFBA"}>>,
   <<"U+D802", {"U+DE01", "U+DE02", "U+DE03", "U+DE05", "U+DE06", "U+DE0C", "U+DE0D", "U+DE0E", "U+DE0F", "U+DE38", "U+DE39", "U+DE3A", "U+DE3F", "U+DEE5", "U+DEE6"}>>,
   <<"U+D803", {"U+DD24", "U+DD25", "U+DD26", "U+DD27", "U+DD4E", "U+DD69", "U+DD6A", "U+DD6B", "U+DD6C", "U+DD6D", "U+DD6F", "U+DEAB", "U+DEAC", "U+DEC5", "U+DEFA", "U+DEFB", "U+DEFC", "U+DEFD", "U+DEFE", "U+DEFF", "U+DF46", "U+DF47", "U+DF48", "U+DF49", "U+DF4A", "U+DF4B", "U+DF4C", "U+DF4D", "U+DF4E", "U+DF4F", "U+DF50", "U+DF82", "U+DF83", "U+DF84", "U+DF85"}>>,
   <<"U+D804", {"U+DC01", "U+DC38", "U+DC39", "U+DC3A", "U+DC3B", "U+DC3C", "U+DC3D", "U+DC3E", "U+DC3F", "U+DC40", "U+DC41", "U+DC42", "U+DC43", "U+DC44", "U+DC45", "U+DC46", "U+DC70", "U+DC73", "U+DC74", "U+DC7F", "U+DC80", "U+DC81", "U+DCB3", "U+DCB4", "U+DCB5", "U+DCB6", "U+DCB9", "U+DCBA", "U+DCBD", "U+DCC2", "U+DCCD", "U+DD00", "U+DD01", "U+DD02", "U+DD27", "U+DD28", "U+DD29", "U+DD2A", "U+DD2B", "U+DD2D", "U+DD2E", "U+DD2F", "U+DD30", "U+DD31", "U+DD32", "U+DD33", "U+DD34", "U+DD73", "U+DD80", "U+DD81", "U+DDB6", "U+DDB7", "U+DDB8", "U+DDB9", "U+DDBA", "U+DDBB", "U+DDBC", "U+DDBD", "U+DDBE", "U+DDC9", "U+DDCA", "U+DDCB", "U+DDCC", "U+DDCF", "U+DE2F", "U+DE30", "U+DE31", "U+DE34", "U+DE36", "U+DE37", "U+DE3E", "U+DE41", "U+DEDF", "U+DEE3", "U+DEE4", "U+DEE5", "U+DEE6", "U+DEE7", "U+DEE8", "U+DEE9", "U+DEEA", "U+DF00", "U+DF01", "U+DF3B", "U+DF3C", "U+DF40", "U+DF66", "U+DF67", "U+DF68", "U+DF69", "U+DF6A", "U+DF6B", "U+DF6C", "U+DF70", "U+DF71", "U+DF72", "U+DF73", "U+DF74", "U+DFBB", "U+DFBC", "U+DFBD", "U+DFBE", "U+DFBF", "U+DFC0", "U+DFCE", "U+DFD0", "U+DFD2", "U+DFE1", "U+DFE2"}>>,
   <<"U+D805", {"U+DC38", "U+DC39", "U+DC3A", "U+DC3B", "U+DC3C", "U+DC3D", "U+DC3E", "U+DC3F", "U+DC42", "U+DC43", "U+DC44", "U+DC46", "U+DC5E", "U+DCB3", "U+DCB4", "U+DCB5", "U+DCB6", "U+DCB7", "U+DCB8", "U+DCBA", "U+DCBF", "U+DCC0", "U+DCC2", "U+DCC3", "U+DDB2", "U+DDB3", "U+DDB4", "U+DDB5", "U+DDBC", "U+DDBD", "U+DDBF", "U+DDC0", "U+DDDC", "U+DDDD", "U+DE33", "U+DE34", "U+DE35", "U+DE36", "U+DE37", "U+DE38", "U+DE39", "U+DE3A", "U+DE3D", "U+DE3F", "U+DE40", "U+DEAB", "U+DEAD", "U+DEB0", "U+DEB1", "U+DEB2", "U+DEB3", "U+DEB4", "U+DEB5", "U+DEB7", "U+DF1D", "U+DF1F", "U+DF22", "U+DF23", "U+DF24", "U+DF25", "U+DF27", "U+DF28", "U+DF29", "U+DF2A", "U+DF2B"}>>,
   <<"U+D806", {"U+DC2F", "U+DC30", "U+DC31", "U+DC32", "U+DC33", "U+DC34", "U+DC35", "U+DC36", "U+DC37", "U+DC39", "U+DC3A", "U+DD3B", "U+DD3C", "U+DD3E", "U+DD43", "U+DDD4", "U+DDD5", "U+DDD6", "U+DDD7", "U+DDDA", "U+DDDB", "U+DDE0", "U+DE01", "U+DE02", "U+DE03", "U+DE04", "U+DE05", "U+DE06", "U+DE07", "U+DE08", "U+DE09", "U+DE0A", "U+DE33", "U+DE34", "U+DE35", "U+DE36", "U+DE37", "U+DE38", "U+DE3B", "U+DE3C", "U+DE3D", "U+DE3E", "U+DE47", "U+DE51", "U+DE52", "U+DE53", "U+DE54", "U+DE55", "U+DE56", "U+DE59", "U+DE5A", "U+DE5B", "U+DE8A", "U+DE8B", "U+DE8C", "U+DE8D", "U+DE8E", "U+DE8F", "U+DE90", "U+DE91", "U+DE92", "U+DE93", "U+DE94", "U+DE95", "U+DE96", "U+DE98", "U+DE99", "U+DF60", "U+DF62", "U+DF63", "U+DF64", "U+DF66"}>>,
   <<"U+D807", {"U+DC30", "U+DC31", "U+DC32", "U+DC33", "U+DC34", "U+DC35", "U+DC36", "U+DC38", "U+DC39", "U+DC3A", "U+DC3B", "U+DC3C", "U+DC3D", "U+DC3F", "U+DC92", "U+DC93", "U+DC94", "U+DC95", "U+DC96", "U+DC97", "U+DC98", "U+DC99", "U+DC9A", "U+DC9B", "U+DC9C", "U+DC9D", "U+DC9E", "U+DC9F", "U+DCA0", "U+DCA1", "U+DCA2", "U+DCA3", "U+DCA4", "U+DCA5", "U+DCA6", "U+DCA7", "U+DCAA", "U+DCAB", "U+DCAC", "U+DCAD", "U+DCAE", "U+DCAF", "U+DCB0", "U+DCB2", "U+DCB3", "U+DCB5", "U+DCB6", "U+DD31", "U+DD32", "U+DD33", "U+DD34", "U+DD35", "U+DD36", "U+DD3A", "U+DD3C", "U+DD3D", "U+DD3F", "U+DD40", "U+DD41", "U+DD42", "U+DD43", "U+DD44", "U+DD45", "U+DD47", "U+DD90", "U+DD91", "U+DD95", "U+DD97", "U+DDD9", "U+DEF3", "U+DEF4", "U+DF00", "U+DF01", "U+DF36", "U+DF37", "U+DF38", "U+DF39", "U+DF3A", "U+DF40", "U+DF42", "U+DF5A"}>>,
   <<"U+D80D", {"U+DC30", "U+DC31", "U+DC32", "U+DC33", "U+DC34", "U+DC35", "U+DC36", "U+DC37", "U+DC38", "U+DC39", "U+DC3A", "U+DC3B", "U+DC3C", "U+DC3D", "U+DC3E", "U+DC3F", "U+DC40", "U+DC47", "U+DC48", "U+DC49", "U+DC4A", "U+DC4B", "U+DC4C", "U+DC4D", "U+DC4E", "U+DC4F", "U+DC50", "U+DC51", "U+DC52", "U+DC53", "U+DC54", "U+DC55"}>>,
   <<"U+D818", {"U+DD1E", "U+DD1F", "U+DD20", "U+DD21", "U+DD22", "U+DD23", "U+DD24", "U+DD25", "U+DD26", "U+DD27", "U+DD28", "U+DD29", "U+DD2D", "U+DD2E", "U+DD2F"}>>,
   <<"U+D81A", {"U+DEF0", "U+DEF1", "U+DEF2", "U+DEF3", "U+DEF4", "U+DF30", "U+DF31", "U+DF32", "U+DF33", "U+DF34", "U+DF35", "U+DF36", "U+DF40", "U+DF41", "U+DF42", "U+DF43"}>>,
   <<"U+D81B", {"U+DD40", "U+DD41", "U+DD42", "U+DD6B", "U+DD6C", "U+DF4F", "U+DF8F", "U+DF90", "U+DF91", "U+DF92", "U+DF93", "U+DF94", "U+DF95", "U+DF96", "U+DF97", "U+DF98", "U+DF99", "U+DF9A", "U+DF9B", "U+DF9C", "U+DF9D", "U+DF9E", "U+DF9F", "U+DFE0", "U+DFE1", "U+DFE3", "U+DFE4", "U+DFF2", "U+DFF3"}>>,
   <<"U+D82B", {"U+DFF0", "U+DFF1", "U+DFF2", "U+DFF3", "U+DFF5", "U+DFF6", "U+DFF7", "U+DFF8", "U+DFF9", "U+DFFA", "U+DFFB", "U+DFFD", "U+DFFE"}>>,
   <<"U+D82F", {"U+DC9D", "U+DC9E", "U+DCA0", "U+DCA1", "U+DCA2", "U+DCA3"}>>,
   <<"U+D833", {"U+DF00", "U+DF01", "U+DF02", "U+DF03", "U+DF04", "U+DF05", "U+DF06", "U+DF07", "U+DF08", "U+DF09", "U+DF0A", "U+DF0B", "U+DF0C", "U+DF0D", "U+DF0E", "U+DF0F", "U+DF10", "U+DF11", "U+DF12", "U+DF13", "U+DF14", "U+DF15", "U+DF16", "U+DF17", "U+DF18", "U+DF19", "U+DF1A", "U+DF1B", "U+DF1C", "U+DF1D", "U+DF1E", "U+DF1F", "U+DF20", "U+DF21", "U+DF22", "U+DF23", "U+DF24", "U+DF25", "U+DF26", "U+DF27", "U+DF28", "U+DF29", "U+DF2A", "U+DF2B", "U+DF2C", "U+DF2D", "U+DF30", "U+DF31", "U+DF32", "U+DF33", "U+DF34", "U+DF35", "U+DF36", "U+DF37", "U+DF38", "U+DF39", "U+DF3A", "U+DF3B", "U+DF3C", "U+DF3D", "U+DF3E", "U+DF3F", "U+DF40", "U+DF41", "U+DF42", "U+DF43", "U+DF44", "U+DF45", "U+DF46"}>>,
   <<"U+D834", {"U+DD67", "U+DD68", "U+DD69", "U+DD73", "U+DD74", "U+DD75", "U+DD76", "U+DD77", "U+DD78", "U+DD79", "U+DD7A", "U+DD7B", "U+DD7C", "U+DD7D", "U+DD7E", "U+DD7F", "U+DD80", "U+DD81", "U+DD82", "U+DD85", "U+DD86", "U+DD87", "U+DD88", "U+DD89", "U+DD8A", "U+DD8B", "U+DDAA", "U+DDAB", "U+DDAC", "U+DDAD", "U+DE42", "U+DE43", "U+DE44"}>>,
   <<"U+D836", {"U+DE00", "U+DE01", "U+DE02", "U+DE03", "U+DE04", "U+DE05", "U+DE06", "U+DE07", "U+DE08", "U+DE09", "U+DE0A", "U+DE0B", "U+DE0C", "U+DE0D", "U+DE0E", "U+DE0F", "U+DE10", "U+DE11", "U+DE12", "U+DE13", "U+DE14", "U+DE15", "U+DE16", "U+DE17", "U+DE18", "U+DE19", "U+DE1A", "U+DE1B", "U+DE1C", "U+DE1D", "U+DE1E", "U+DE1F", "U+DE20", "U+DE21", "U+DE22", "U+DE23", "U+DE24", "U+DE25", "U+DE26", "U+DE27", "U+DE28", "U+DE29", "U+DE2A", "U+DE2B", "U+DE2C", "U+DE2D", "U+DE2E", "U+DE2F", "U+DE30", "U+DE31", "U+DE32", "U+DE33", "U+DE34", "U+DE35", "U+DE36", "U+DE3B", "U+DE3C", "U+DE3D", "U+DE3E", "U+DE3F", "U+DE40", "U+DE41", "U+DE42", "U+DE43", "U+DE44", "U+DE45", "U+DE46", "U+DE47", "U+DE48", "U+DE49", "U+DE4A", "U+DE4B", "U+DE4C", "U+DE4D", "U+DE4E", "U+DE4F", "U+DE50", "U+DE51", "U+DE52", "U+DE53", "U+DE54", "U+DE55", "U+DE56", "U+DE57", "U+DE58", "U+DE59", "U+DE5A", "U+DE5B", "U+DE5C", "U+DE5D", "U+DE5E", "U+DE5F", "U+DE60", "U+DE61", "U+DE62", "U+DE63", "U+DE64", "U+DE65", "U+DE66", "U+DE67", "U+DE68", "U+DE69", "U+DE6A", "U+DE6B", "U+DE6C", "U+DE75", "U+DE84", "U+DE9B", "U+DE9C", "U+DE9D", "U+DE9E", "U+DE9F", "U+DEA1", "U+DEA2", "U+DEA3", "U+DEA4", "U+DEA5", "U+DEA6", "U+DEA7", "U+DEA8", "U+DEA9", "U+DEAA", "U+DEAB", "U+DEAC", "U+DEAD", "U+DEAE", "U+DEAF"}>>,
   <<"U+D838", {"U+DC00", "U+DC01", "U+DC02", "U+DC03", "U+DC04", "U+DC05", "U+DC06", "U+DC08", "U+DC09", "U+DC0A", "U+DC0B", "U+DC0C", "U+DC0D", "U+DC0E", "U+DC0F", "U+DC10", "U+DC11", "U+DC12", "U+DC13", "U+DC14", "U+DC15", "U+DC16", "U+DC17", "U+DC18", "U+DC1B", "U+DC1C", "U+DC1D", "U+DC1E", "U+DC1F", "U+DC20", "U+DC21", "U+DC23", "U+DC24", "U+DC26", "U+DC27", "U+DC28", "U+DC29", "U+DC2A", "U+DC30", "U+DC31", "U+DC32", "U+DC33", "U+DC34", "U+DC35", "U+DC36", "U+DC37", "U+DC38", "U+DC39", "U+DC3A", "U+DC3B", "U+DC3C", "U+DC3D", "U+DC3E", "U+DC3F", "U+DC40", "U+DC41", "U+DC42", "U+DC43", "U+DC44", "U+DC45", "U+DC46", "U+DC47", "U+DC48", "U+DC49", "U+DC4A", "U+DC4B", "U+DC4C", "U+DC4D", "U+DC4E", "U+DC4F", "U+DC50", "U+DC51", "U+DC52", "U+DC53", "U+DC54", "U+DC55", "U+DC56", "U+DC57", "U+DC58", "U+DC59", "U+DC5A", "U+DC5B", "U+DC5C", "U+DC5D", "U+DC5E", "U+DC5F", "U+DC60", "U+DC61", "U+DC62", "U+DC63", "U+DC64", "U+DC65", "U+DC66", "U+DC67", "U+DC68", "U+DC69", "U+DC6A", "U+DC6B", "U+DC6C", "U+DC6D", "U+DC8F", "U+DD30", "U+DD31", "U+DD32", "U+DD33", "U+DD34", "U+DD35", "U+DD36", "U+DD37", "U+DD38", "U+DD39", "U+DD3A", "U+DD3B", "U+DD3C", "U+DD3D", "U+DEAE", "U+DEEC", "U+DEED", "U+DEEE", "U+DEEF"}>>,
   <<"U+D839", {"U+DCEB", "U+DCEC", "U+DCED", "U+DCEE", "U+DCEF", "U+DDEE", "U+DDEF", "U+DEE3", "U+DEE6", "U+DEEE", "U+DEEF", "U+DEF5", "U+DEFF"}>>,
   <<"U+D83A", {"U+DCD0", "U+DCD1", "U+DCD2", "U+DCD3", "U+DCD4", "U+DCD5", "U+DCD6", "U+DD44", "U+DD45", "U+DD46", "U+DD47", "U+DD48", "U+DD49", "U+DD4A", "U+DD4B"}>>,
   <<"U+D83C", {"U+DFFB", "U+DFFC", "U+DFFD", "U+DFFE", "U+DFFF"}>>,
   <<"U+DB40", {"U+DC01", "U+DC20", "U+DC21", "U+DC22", "U+DC23", "U+DC24", "U+DC25", "U+DC26", "U+DC27", "U+DC28", "U+DC29", "U+DC2A", "U+DC2B", "U+DC2C", "U+DC2D", "U+DC2E", "U+DC2F", "U+DC30", "U+DC31", "U+DC32", "U+DC33", "U+DC34", "U+DC35", "U+DC36", "U+DC37", "U+DC38", "U+DC39", "U+DC3A", "U+DC3B", "U+DC3C", "U+DC3D", "U+DC3E", "U+DC3F", "U+DC40", "U+DC41", "U+DC42", "U+DC43", "U+DC44", "U+DC45", "U+DC46", "U+DC47", "U+DC48", "U+DC49", "U+DC4A", "U+DC4B", "U+DC4C", "U+DC4D", "U+DC4E", "U+DC4F", "U+DC50", "U+DC51", "U+DC52", "U+DC53", "U+DC54", "U+DC55", "U+DC56", "U+DC57", "U+DC58", "U+DC59", "U+DC5A", "U+DC5B", "U+DC5C", "U+DC5D", "U+DC5E", "U+DC5F", "U+DC60", "U+DC61", "U+DC62", "U+DC63", "U+DC64", "U+DC65", "U+DC66", "U+DC67", "U+DC68", "U+DC69", "U+DC6A", "U+DC6B", "U+DC6C", "U+DC6D", "U+DC6E", "U+DC6F", "U+DC70", "U+DC71", "U+DC72", "U+DC73", "U+DC74", "U+DC75", "U+DC76", "U+DC77", "U+DC78", "U+DC79", "U+DC7A", "U+DC7B", "U+DC7C", "U+DC7D", "U+DC7E", "U+DC7F", "U+DD00", "U+DD01", "U+DD02", "U+DD03", "U+DD04", "U+DD05", "U+DD06", "U+DD07", "U+DD08", "U+DD09", "U+DD0A", "U+DD0B", "U+DD0C", "U+DD0D", "U+DD0E", "U+DD0F", "U+DD10", "U+DD11", "U+DD12", "U+DD13", "U+DD14", "U+DD15", "U+DD16", "U+DD17", "U+DD18", "U+DD19", "U+DD1A", "U+DD1B", "U+DD1C", "U+DD1D", "U+DD1E", "U+DD1F", "U+DD20", "U+DD21", "U+DD22", "U+DD23", "U+DD24", "U+DD25", "U+DD26", "U+DD27", "U+DD28", "U+DD29", "U+DD2A", "U+DD2B", "U+DD2C", "U+DD2D", "U+DD2E", "U+DD2F", "U+DD30", "U+DD31", "U+DD32", "U+DD33", "U+DD34", "U+DD35", "U+DD36", "U+DD37", "U+DD38", "U+DD39", "U+DD3A", "U+DD3B", "U+DD3C", "U+DD3D", "U+DD3E", "U+DD3F", "U+DD40", "U+DD41", "U+DD42", "U+DD43", "U+DD44", "U+DD45", "U+DD46", "U+DD47", "U+DD48", "U+DD49", "U+DD4A", "U+DD4B", "U+DD4C", "U+DD4D", "U+DD4E", "U+DD4F", "U+DD50", "U+DD51", "U+DD52", "U+DD53", "U+DD54", "U+DD55", "U+DD56", "U+DD57", "U+DD58", "U+DD59", "U+DD5A", "U+DD5B", "U+DD5C", "U+DD5D", "U+DD5E", "U+DD5F", "U+DD60", "U+DD61", "U+DD62", "U+DD63", "U+DD64", "U+DD65", "U+DD66", "U+DD67", "U+DD68", "U+DD69", "U+DD6A", "U+DD6B", "U+DD6C", "U+DD6D", "U+DD6E", "U+DD6F", "U+DD70", "U+DD71", "U+DD72", "U+DD73", "U+DD74", "U+DD75", "U+DD76", "U+DD77", "U+DD78", "U+DD79", "U+DD7A", "U+DD7B", "U+DD7C", "U+DD7D", "U+DD7E", "U+DD7F", "U+DD80", "U+DD81", "U+DD82", "U+DD83", "U+DD84", "U+DD85", "U+DD86", "U+DD87", "U+DD88", "U+DD89", "U+DD8A", "U+DD8B", "U+DD8C", "U+DD8D", "U+DD8E", "U+DD8F", "U+DD90", "U+DD91", "U+DD92", "U+DD93", "U+DD94", "U+DD95", "U+DD96", "U+DD97", "U+DD98", "U+DD99", "U+DD9A", "U+DD9B", "U+DD9C", "U+DD9D", "U+DD9E", "U+DD9F", "U+DDA0", "U+DDA1", "U+DDA2", "U+DDA3", "U+DDA4", "U+DDA5", "U+DDA6", "U+DDA7", "U+DDA8", "U+DDA9", "U+DDAA", "U+DDAB", "U+DDAC", "U+DDAD", "U+DDAE", "U+DDAF", "U+DDB0", "U+DDB1", "U+DDB2", "U+DDB3", "U+DDB4", "U+DDB5", "U+DDB6", "U+DDB7", "U+DDB8", "U+DDB9", "U+DDBA", "U+DDBB", "U+DDBC", "U+DDBD", "U+DDBE", "U+DDBF", "U+DDC0", "U+DDC1", "U+DDC2", "U+DDC3", "U+DDC4", "U+DDC5", "U+DDC6", "U+DDC7", "U+DDC8", "U+DDC9", "U+DDCA", "U+DDCB", "U+DDCC", "U+DDCD", "U+DDCE", "U+DDCF", "U+DDD0", "U+DDD1", "U+DDD2", "U+DDD3", "U+DDD4", "U+DDD5", "U+DDD6", "U+DDD7", "U+DDD8", "U+DDD9", "U+DDDA", "U+DDDB", "U+DDDC", "U+DDDD", "U+DDDE", "U+DDDF", "U+DDE0", "U+DDE1", "U+DDE2", "U+DDE3", "U+DDE4", "U+DDE5", "U+DDE6", "U+DDE7", "U+DDE8", "U+DDE9", "U+DDEA", "U+DDEB", "U+DDEC", "U+DDED", "U+DDEE", "U+DDEF"}>>}

AstralOtherCased ==
  {<<"U+D835", {"U+DC00", "U+DC01", "U+DC02", "U+DC03", "U+DC04", "U+DC05", "U+DC06", "U+DC07", "U+DC08", "U+DC09", "U+DC0A", "U+DC0B", "U+DC0C", "U+DC0D", "U+DC0E", "U+DC0F", "U+DC10", "U+DC11", "U+DC12", "U+DC13", "U+DC14", "U+DC15", "U+DC16", "U+DC17", "U+DC18", "U+DC19", "U+DC1A", "U+DC1B", "U+DC1C", "U+DC1D", "U+DC1E", "U+DC1F", "U+DC20", "U+DC21", "U+DC22", "U+DC23", "U+DC24", "U+DC25", "U+DC26", "U+DC27", "U+DC28", "U+DC29", "U+DC2A", "U+DC2B", "U+DC2C", "U+DC2D", "U+DC2E", "U+DC2F", "U+DC30", "U+DC31", "U+DC32", "U+DC33", "U+DC34", "U+DC35", "U+DC36", "U+DC37", "U+DC38", "U+DC39", "U+DC3A", "U+DC3B", "U+DC3C", "U+DC3D", "U+DC3E", "U+DC3F", "U+DC40", "U+DC41", "U+DC42", "U+DC43", "U+DC44", "U+DC45", "U+DC46", "U+DC47", "U+DC48", "U+DC49", "U+DC4A", "U+DC4B", "U+DC4C", "U+DC4D", "U+DC4E", "U+DC4F", "U+DC50", "U+DC51", "U+DC52", "U+DC53", "U+DC54", "U+DC56", "U+DC57", "U+DC58", "U+DC59", "U+DC5A", "U+DC5B", "U+DC5C", "U+DC5D", "U+DC5E", "U+DC5F", "U+DC60", "U+DC61", "U+DC62", "U+DC63", "U+DC64", "U+DC65", "U+DC66", "U+DC67", "U+DC68", "U+DC69", "U+DC6A", "U+DC6B", "U+DC6C", "U+DC6D", "U+DC6E", "U+DC6F", "U+DC70", "U+DC71", "U+DC72", "U+DC73", "U+DC74", "U+DC75", "U+DC76", "U+DC77", "U+DC78", "U+DC79", "U+DC7A", "U+DC7B", "U+DC7C", "U+DC7D", "U+DC7E", "U+DC7F", "U+DC80", "U+DC81", "U+DC82", "U+DC83", "U+DC84", "U+DC85", "U+DC86", "U+DC87", "U+DC88", "U+DC89", "U+DC8A", "U+DC8B", "U+DC8C", "U+DC8D", "U+DC8E", "U+DC8F", "U+DC90", "U+DC91", "U+DC92", "U+DC93", "U+DC94", "U+DC95", "U+DC96", "U+DC97", "U+DC98", "U+DC99", "U+DC9A", "U+DC9B", "U+DC9C", "U+DC9E", "U+DC9F", "U+DCA2", "U+DCA5", "U+DCA6", "U+DCA9", "U+DCAA", "U+DCAB", "U+DCAC", "U+DCAE", "U+DCAF", "U+DCB0", "U+DCB1", "U+DCB2", "U+DCB3", "U+DCB4", "U+DCB5", "U+DCB6", "U+DCB7", "U+DCB8", "U+DCB9", "U+DCBB", "U+DCBD", "U+DCBE", "U+DCBF", "U+DCC0", "U+DCC1", "U+DCC2", "U+DCC3", "U+DCC5", "U+DCC6", "U+DCC7", "U+DCC8", "U+DCC9", "U+DCCA", "U+DCCB", "U+DCCC", "U+DCCD", "U+DCCE", "U+DCCF", "U+DCD0", "U+DCD1", "U+DCD2", "U+DCD3", "U+DCD4", "U+DCD5", "U+DCD6", "U+DCD7", "U+DCD8", "U+DCD9", "U+DCDA", "U+DCDB", "U+DCDC", "U+DCDD", "U+DCDE", "U+DCDF", "U+DCE0", "U+DCE1", "U+DCE2", "U+DCE3", "U+DCE4", "U+DCE5", "U+DCE6", "U+DCE7", "U+DCE8", "U+DCE9", "U+DCEA", "U+DCEB", "U+DCEC", "U+DCED", "U+DCEE", "U+DCEF", "U+DCF0", "U+DCF1", "U+DCF2", "U+DCF3", "U+DCF4", "U+DCF5", "U+DCF6", "U+DCF7", "U+DCF8", "U+DCF9", "U+DCFA", "U+DCFB", "U+DCFC", "U+DCFD", "U+DCFE", "U+DCFF", "U+DD00", "U+DD01", "U+DD02", "U+DD03", "U+DD04", "U+DD05", "U+DD07", "U+DD08", "U+DD09", "U+DD0A", "U+DD0D", "U+DD0E", "U+DD0F", "U+DD10", "U+DD11", "U+DD12", "U+DD13", "U+DD14", "U+DD16", "U+DD17", "U+DD18", "U+DD19", "U+DD1A", "U+DD1B", "U+DD1C", "U+DD1E", "U+DD1F", "U+DD20", "U+DD21", "U+DD22", "U+DD23", "U+DD24", "U+DD25", "U+DD26", "U+DD27", "U+DD28", "U+DD29", "U+DD2A", "U+DD2B", "U+DD2C", "U+DD2D", "U+DD2E", "U+DD2F", "U+DD30", "U+DD31", "U+DD32", "U+DD33", "U+DD34", "U+DD35", "U+DD36", "U+DD37", "U+DD38", "U+DD39", "U+DD3B", "U+DD3C", "U+DD3D", "U+DD3E", "U+DD40", "U+DD41", "U+DD42", "U+DD43", "U+DD44", "U+DD46", "U+DD4A", "U+DD4B", "U+DD4C", "U+DD4D", "U+DD4E", "U+DD4F", "U+DD50", "U+DD52", "U+DD53", "U+DD54", "U+DD55", "U+DD56", "U+DD57", "U+DD58", "U+DD59", "U+DD5A", "U+DD5B", "U+DD5C", "U+DD5D", "U+DD5E", "U+DD5F", "U+DD60", "U+DD61", "U+DD62", "U+DD63", "U+DD64", "U+DD65", "U+DD66", "U+DD67", "U+DD68", "U+DD69", "U+DD6A", "U+DD6B", "U+DD6C", "U+DD6D", "U+DD6E", "U+DD6F", "U+DD70", "U+DD71", "U+DD72", "U+DD73", "U+DD74", "U+DD75", "U+DD76", "U+DD77", "U+DD78", "U+DD79", "U+DD7A", "U+DD7B", "U+DD7C", "U+DD7D", "U+DD7E", "U+DD7F", "U+DD80", "U+DD81", "U+DD82", "U+DD83", "U+DD84", "U+DD85", "U+DD86", "U+DD87", "U+DD88", "U+DD89", "U+DD8A", "U+DD8B", "U+DD8C", "U+DD8D", "U+DD8E", "U+DD8F", "U+DD90", "U+DD91", "U+DD92", "U+DD93", "U+DD94", "U+DD95", "U+DD96", "U+DD97", "U+DD98", "U+DD99", "U+DD9A", "U+DD9B", "U+DD9C", "U+DD9D", "U+DD9E", "U+DD9F", "U+DDA0", "U+DDA1", "U+DDA2", "U+DDA3", "U+DDA4", "U+DDA5", "U+DDA6", "U+DDA7", "U+DDA8", "U+DDA9", "U+DDAA", "U+DDAB", "U+DDAC", "U+DDAD", "U+DDAE", "U+DDAF", "U+DDB0", "U+DDB1", "U+DDB2", "U+DDB3", "U+DDB4", "U+DDB5", "U+DDB6", "U+DDB7", "U+DDB8", "U+DDB9", "U+DDBA", "U+DDBB", "U+DDBC", "U+DDBD", "U+DDBE", "U+DDBF", "U+DDC0", "U+DDC1", "U+DDC2", "U+DDC3", "U+DDC4", "U+DDC5", "U+DDC6", "U+DDC7", "U+DDC8", "U+DDC9", "U+DDCA", "U+DDCB", "U+DDCC", "U+DDCD", "U+DDCE", "U+DDCF", "U+DDD0", "U+DDD1", "U+DDD2", "U+DDD3", "U+DDD4", "U+DDD5", "U+DDD6", "U+DDD7", "U+DDD8", "U+DDD9", "U+DDDA", "U+DDDB", "U+DDDC", "U+DDDD", "U+DDDE", "U+DDDF", "U+DDE0", "U+DDE1", "U+DDE2", "U+DDE3", "U+DDE4", "U+DDE5", "U+DDE6", "U+DDE7", "U+DDE8", "U+DDE9", "U+DDEA", "U+DDEB", "U+DDEC", "U+DDED", "U+DDEE", "U+DDEF", "U+DDF0", "U+DDF1", "U+DDF2", "U+DDF3", "U+DDF4", "U+DDF5", "U+DDF6", "U+DDF7", "U+DDF8", "U+DDF9", "U+DDFA", "U+DDFB", "U+DDFC", "U+DDFD", "U+DDFE", "U+DDFF", "U+DE00", "U+DE01", "U+DE02", "U+DE03", "U+DE04", "U+DE05", "U+DE06", "U+DE07", "U+DE08", "U+DE09", "U+DE0A", "U+DE0B", "U+DE0C", "U+DE0D", "U+DE0E", "U+DE0F", "U+DE10", "U+DE11", "U+DE12", "U+DE13", "U+DE14", "U+DE15", "U+DE16", "U+DE17", "U+DE18", "U+DE19", "U+DE1A", "U+DE1B", "U+DE1C", "U+DE1D", "U+DE1E", "U+DE1F", "U+DE20", "U+DE21", "U+DE22", "U+DE23", "U+DE24", "U+DE25", "U+DE26", "U+DE27", "U+DE28", "U+DE29", "U+DE2A", "U+DE2B", "U+DE2C", "U+DE2D", "U+DE2E", "U+DE2F", "U+DE30", "U+DE31", "U+DE32", "U+DE33", "U+DE34", "U+DE35", "U+DE36", "U+DE37", "U+DE38", "U+DE39", "U+DE3A", "U+DE3B", "U+DE3C", "U+DE3D", "U+DE3E", "U+DE3F", "U+DE40", "U+DE41", "U+DE42", "U+DE43", "U+DE44", "U+DE45", "U+DE46", "U+DE47", "U+DE48", "U+DE49", "U+DE4A", "U+DE4B", "U+DE4C", "U+DE4D", "U+DE4E", "U+DE4F", "U+DE50", "U+DE51", "U+DE52", "U+DE53", "U+DE54", "U+DE55", "U+DE56", "U+DE57", "U+DE58", "U+DE59", "U+DE5A", "U+DE5B", "U+DE5C", "U+DE5D", "U+DE5E", "U+DE5F", "U+DE60", "U+DE61", "U+DE62", "U+DE63", "U+DE64", "U+DE65", "U+DE66", "U+DE67", "U+DE68", "U+DE69", "U+DE6A", "U+DE6B", "U+DE6C", "U+DE6D", "U+DE6E", "U+DE6F", "U+DE70", "U+DE71", "U+DE72", "U+DE73", "U+DE74", "U+DE75", "U+DE76", "U+DE77", "U+DE78", "U+DE79", "U+DE7A", "U+DE7B", "U+DE7C", "U+DE7D", "U+DE7E", "U+DE7F", "U+DE80", "U+DE81", "U+DE82", "U+DE83", "U+DE84", "U+DE85", "U+DE86", "U+DE87", "U+DE88", "U+DE89", "U+DE8A", "U+DE8B", "U+DE8C", "U+DE8D", "U+DE8E", "U+DE8F", "U+DE90", "U+DE91", "U+DE92", "U+DE93", "U+DE94", "U+DE95", "U+DE96", "U+DE97", "U+DE98", "U+DE99", "U+DE9A", "U+DE9B", "U+DE9C", "U+DE9D", "U+DE9E", "U+DE9F", "U+DEA0", "U+DEA1", "U+DEA2", "U+DEA3", "U+DEA4", "U+DEA5", "U+DEA8", "U+DEA9", "U+DEAA", "U+DEAB", "U+DEAC", "U+DEAD", "U+DEAE", "U+DEAF", "U+DEB0", "U+DEB1", "U+DEB2", "U+DEB3", "U+DEB4", "U+DEB5", "U+DEB6", "U+DEB7", "U+DEB8", "U+DEB9", "U+DEBA", "U+DEBB", "U+DEBC", "U+DEBD", "U+DEBE", "U+DEBF", "U+DEC0", "U+DEC2", "U+DEC3", "U+DEC4", "U+DEC5", "U+DEC6", "U+DEC7", "U+DEC8", "U+DEC9", "U+DECA", "U+DECB", "U+DECC", "U+DECD", "U+DECE", "U+DECF", "U+DED0", "U+DED1", "U+DED2", "U+DED3", "U+DED4", "U+DED5", "U+DED6", "U+DED7", "U+DED8", "U+DED9", "U+DEDA", "U+DEDC", "U+DEDD", "U+DEDE", "U+DEDF", "U+DEE0", "U+DEE1", "U+DEE2", "U+DEE3", "U+DEE4", "U+DEE5", "U+DEE6", "U+DEE7", "U+DEE8", "U+DEE9", "U+DEEA", "U+DEEB", "U+DEEC", "U+DEED", "U+DEEE", "U+DEEF", "U+DEF0", "U+DEF1", "U+DEF2", "U+DEF3", "U+DEF4", "U+DEF5", "U+DEF6", "U+DEF7", "U+DEF8", "U+DEF9", "U+DEFA", "U+DEFC", "U+DEFD", "U+DEFE", "U+DEFF", "U+DF00", "U+DF01", "U+DF02", "U+DF03", "U+DF04", "U+DF05", "U+DF06", "U+DF07", "U+DF08", "U+DF09", "U+DF0A", "U+DF0B", "U+DF0C", "U+DF0D", "U+DF0E", "U+DF0F", "U+DF10", "U+DF11", "U+DF12", "U+DF13", "U+DF14", "U+DF16", "U+DF17", "U+DF18", "U+DF19", "U+DF1A", "U+DF1B", "U+DF1C", "U+DF1D", "U+DF1E", "U+DF1F", "U+DF20", "U+DF21", "U+DF22", "U+DF23", "U+DF24", "U+DF25", "U+DF26", "U+DF27", "U+DF28", "U+DF29", "U+DF2A", "U+DF2B", "U+DF2C", "U+DF2D", "U+DF2E", "U+DF2F", "U+DF30", "U+DF31", "U+DF32", "U+DF33", "U+DF34", "U+DF36", "U+DF37", "U+DF38", "U+DF39", "U+DF3A", "U+DF3B", "U+DF3C", "U+DF3D", "U+DF3E", "U+DF3F", "U+DF40", "U+DF41", "U+DF42", "U+DF43", "U+DF44", "U+DF45", "U+DF46", "U+DF47", "U+DF48", "U+DF49", "U+DF4A", "U+DF4B", "U+DF4C", "U+DF4D", "U+DF4E", "U+DF50", "U+DF51", "U+DF52", "U+DF53", "U+DF54", "U+DF55", "U+DF56", "U+DF57", "U+DF58", "U+DF59", "U+DF5A", "U+DF5B", "U+DF5C", "U+DF5D", "U+DF5E", "U+DF5F", "U+DF60", "U+DF61", "U+DF62", "U+DF63", "U+DF64", "U+DF65", "U+DF66", "U+DF67", "U+DF68", "U+DF69", "U+DF6A", "U+DF6B", "U+DF6C", "U+DF6D", "U+DF6E", "U+DF70", "U+DF71", "U+DF72", "U+DF73", "U+DF74", "U+DF75", "U+DF76", "U+DF77", "U+DF78", "U+DF79", "U+DF7A", "U+DF7B", "U+DF7C", "U+DF7D", "U+DF7E", "U+DF7F", "U+DF80", "U+DF81", "U+DF82", "U+DF83", "U+DF84", "U+DF85", "U+DF86", "U+DF87", "U+DF88", "U+DF8A", "U+DF8B", "U+DF8C", "U+DF8D", "U+DF8E", "U+DF8F", "U+DF90", "U+DF91", "U+DF92", "U+DF93", "U+DF94", "U+DF95", "U+DF96", "U+DF97", "U+DF98", "U+DF99", "U+DF9A", "U+DF9B", "U+DF9C", "U+DF9D", "U+DF9E", "U+DF9F", "U+DFA0", "U+DFA1", "U+DFA2", "U+DFA3", "U+DFA4", "U+DFA5", "U+DFA6", "U+DFA7", "U+DFA8", "U+DFAA", "U+DFAB", "U+DFAC", "U+DFAD", "U+DFAE", "U+DFAF", "U+DFB0", "U+DFB1", "U+DFB2", "U+DFB3", "U+DFB4", "U+DFB5", "U+DFB6", "U+DFB7", "U+DFB8", "U+DFB9", "U+DFBA", "U+DFBB", "U+DFBC", "U+DFBD", "U+DFBE", "U+DFBF", "U+DFC0", "U+DFC1", "U+DFC2", "U+DFC4", "U+DFC5", "U+DFC6", "U+DFC7", "U+DFC8", "U+DFC9", "U+DFCA", "U+DFCB"}>>,
   <<"U+D837", {"U+DF00", "U+DF01", "U+DF02", "U+DF03", "U+DF04", "U+DF05", "U+DF06", "U+DF07", "U+DF08", "U+DF09", "U+DF0B", "U+DF0C", "U+DF0D", "U+DF0E", "U+DF0F", "U+DF10", "U+DF11", "U+DF12", "U+DF13", "U+DF14", "U+DF15", "U+DF16", "U+DF17", "U+DF18", "U+DF19", "U+DF1A", "U+DF1B", "U+DF1C", "U+DF1D", "U+DF1E", "U+DF25", "U+DF26", "U+DF27", "U+DF28", "U+DF29", "U+DF2A"}>>,
   <<"U+D83C", {"U+DD30", "U+DD31", "U+DD32", "U+DD33", "U+DD34", "U+DD35", "U+DD36", "U+DD37", "U+DD38", "U+DD39", "U+DD3A", "U+DD3B", "U+DD3C", "U+DD3D", "U+DD3E", "U+DD3F", "U+DD40", "U+DD41", "U+DD42", "U+DD43", "U+DD44", "U+DD45", "U+DD46", "U+DD47", "U+DD48", "U+DD49", "U+DD50", "U+DD51", "U+DD52", "U+DD53", "U+DD54", "U+DD55", "U+DD56", "U+DD57", "U+DD58", "U+DD59", "U+DD5A", "U+DD5B", "U+DD5C", "U+DD5D", "U+DD5E", "U+DD5F", "U+DD60", "U+DD61", "U+DD62", "U+DD63", "U+DD64", "U+DD65", "U+DD66", "U+DD67", "U+DD68", "U+DD69", "U+DD70", "U+DD71", "U+DD72", "U+DD73", "U+DD74", "U+DD75", "U+DD76", "U+DD77", "U+DD78", "U+DD79", "U+DD7A", "U+DD7B", "U+DD7C", "U+DD7D", "U+DD7E", "U+DD7F", "U+DD80", "U+DD81", "U+DD82", "U+DD83", "U+DD84", "U+DD85", "U+DD86", "U+DD87", "U+DD88", "U+DD89"}>>}

Elements(seq) == {seq[i] : i \in 1..Len(seq)}

IndexOf(seq, x) == CHOOSE i \in 1..Len(seq) : seq[i] = x

LowerSet == Elements(LowerChars)

UpperSet == Elements(UpperChars)

AstralLowerSet == Elements(AstralLowerChars)

AstralUpperSet == Elements(AstralUpperChars)

UpperSpecialKeys == {p[1] : p \in Elements(UpperSpecial)}

LowerSpecialKeys == {p[1] : p \in Elements(LowerSpecial)}

\* the code units i and i + 1 of s are the two surrogates of a character of groups
InGroups(groups, s, i) ==
  /\ i >= 1
  /\ i < Len(s)
  /\ \E g \in groups : g[1] = s[i] /\ s[i + 1] \in g[2]

InPairs(pairs, s, i) == i >= 1 /\ i < Len(s) /\ <<s[i], s[i + 1]>> \in pairs

\* the code unit i of s belongs to a case-ignorable character
IsCaseIgnorable(s, i) ==
  \/ s[i] \in CaseIgnorable
  \/ InGroups(AstralCaseIgnorable, s, i)
  \/ InGroups(AstralCaseIgnorable, s, i - 1)

\* the code unit i of s belongs to a cased character that is not case-ignorable
IsCased(s, i) ==
  /\ ~IsCaseIgnorable(s, i)
  /\ \/ s[i] \in LowerSet \cup UpperSet \cup UpperSpecialKeys \cup LowerSpecialKeys \cup OtherCased
     \/ \E j \in {i - 1, i} :
          \/ InPairs(AstralLowerSet \cup AstralUpperSet, s, j)
          \/ InGroups(AstralOtherCased, s, j)

\* Final_Sigma: the capital sigma at i comes after a cased letter and
\* case-ignorable characters, and no cased letter comes after it and
\* case-ignorable characters
FinalSigma(s, i) ==
  /\ \E j \in 1..(i - 1) :
       IsCased(s, j) /\ \A k \in (j + 1)..(i - 1) : IsCaseIgnorable(s, k)
  /\ ~\E j \in (i + 1)..Len(s) :
        IsCased(s, j) /\ \A k \in (i + 1)..(j - 1) : IsCaseIgnorable(s, k)

\* what the code unit i of s contributes to s.toUpperCase(): the low
\* surrogate of a converted character contributes nothing
UpperPiece(s, i) ==
  IF InPairs(AstralLowerSet, s, i)
    THEN AstralUpperChars[IndexOf(AstralLowerChars, <<s[i], s[i + 1]>>)]
  ELSE IF InPairs(AstralLowerSet, s, i - 1) THEN <<>>
  ELSE IF s[i] \in LowerSet THEN <<UpperChars[IndexOf(LowerChars, s[i])]>>
  ELSE IF s[i] \in UpperSpecialKeys THEN UpperSpecial[IndexOf([j \in 1..Len(UpperSpecial) |-> UpperSpecial[j][1]], s[i])][2]
  ELSE <<s[i]>>

\* what the code unit i of s contributes to s.toLowerCase()
LowerPiece(s, i) ==
  IF InPairs(AstralUpperSet, s, i)
    THEN AstralLowerChars[IndexOf(AstralUpperChars, <<s[i], s[i + 1]>>)]
  ELSE IF InPairs(AstralUpperSet, s, i - 1) THEN <<>>
  ELSE IF s[i] = "U+03A3" /\ FinalSigma(s, i) THEN <<"U+03C2">>
  ELSE IF s[i] \in UpperSet THEN <<LowerChars[IndexOf(UpperChars, s[i])]>>
  ELSE IF s[i] \in LowerSpecialKeys THEN LowerSpecial[IndexOf([j \in 1..Len(LowerSpecial) |-> LowerSpecial[j][1]], s[i])][2]
  ELSE <<s[i]>>

\* the pieces of the code units from..to of s, one after the other
RECURSIVE UpperRange(_, _, _)
UpperRange(s, from, to) ==
  IF from > to THEN <<>>
  ELSE IF from = to THEN UpperPiece(s, from)
  ELSE UpperRange(s, from, (from + to) \div 2) \o UpperRange(s, (from + to) \div 2 + 1, to)

RECURSIVE LowerRange(_, _, _)
LowerRange(s, from, to) ==
  IF from > to THEN <<>>
  ELSE IF from = to THEN LowerPiece(s, from)
  ELSE LowerRange(s, from, (from + to) \div 2) \o LowerRange(s, (from + to) \div 2 + 1, to)

toUpperCase(s) == CHOOSE r \in {UpperRange(str, 1, Len(str)) : str \in {s}} : TRUE

toLowerCase(s) == CHOOSE r \in {LowerRange(str, 1, Len(str)) : str \in {s}} : TRUE

\* WhiteSpace and LineTerminator of ECMAScript, which trim and \s match
\* (the character after "U+000B" is the no-break space U+00A0)
WhiteSpace == {" ", "\t", "\n", "\r", "\f", "U+000B", " ",
               "U+1680", "U+2000", "U+2001", "U+2002", "U+2003", "U+2004",
               "U+2005", "U+2006", "U+2007", "U+2008", "U+2009", "U+200A",
               "U+2028", "U+2029", "U+202F", "U+205F", "U+3000", "U+FEFF"}

IsSpace(c) == c \in WhiteSpace

RECURSIVE trimStart(_)
trimStart(s) ==
  IF s = <<>> THEN <<>>
  ELSE IF IsSpace(Head(s)) THEN trimStart(Tail(s)) ELSE s

RECURSIVE trimEnd(_)
trimEnd(s) ==
  IF s = <<>> THEN <<>>
  ELSE IF IsSpace(s[Len(s)]) THEN trimEnd(SubSeq(s, 1, Len(s) - 1)) ELSE s

trim(s) == trimEnd(trimStart(s))

\* s.includes(sub): sub occurs as a contiguous substring of s
includes(s, sub) ==
  \E i \in 0..(Len(s) - Len(sub)) : SubSeq(s, i + 1, i + Len(sub)) = sub

\* s.substring(start, end): the arguments are brought into 0..s.length and
\* the smaller one is the start
substring(s, start, end) ==
  LET a == IF start < 0 THEN 0 ELSE IF start > Len(s) THEN Len(s) ELSE start
      b == IF end < 0 THEN 0 ELSE IF end > Len(s) THEN Len(s) ELSE end
  IN SubSeq(s, (IF a < b THEN a ELSE b) + 1, IF a < b THEN b ELSE a)

\* s.split(' '): the pieces between single spaces (empty pieces are kept)
RECURSIVE splitAcc(_, _, _)
splitAcc(s, cur, acc) ==
  IF s = <<>> THEN Append(acc, cur)
  ELSE IF Head(s) = " " THEN splitAcc(Tail(s), <<>>, Append(acc, cur))
  ELSE splitAcc(Tail(s), Append(cur, Head(s)), acc)

split(s) == splitAcc(s, <<>>, <<>>)

\* array.join(' ')
RECURSIVE joinSp(_)
joinSp(parts) ==
  IF parts = <<>> THEN <<>>
  ELSE IF Len(parts) = 1 THEN parts[1]
  ELSE parts[1] \o <<" ">> \o joinSp(Tail(parts))

\* JavaScript undefined, and the truthiness of an optional string
UNDEFINED == <<"undefined">>

Truthy(s) == s # UNDEFINED /\ s # <<>>

\* JavaScript null (returned by extractMedicalInfo, scrapeXProfile, ...)
NULL == [null |-> TRUE]

Min(a, b) == IF a < b THEN a ELSE b

Max(a, b) == IF a > b THEN a ELSE b

(***************************************************************************)
(* Numbers.  A JavaScript number is an IEEE-754 double.  The numbers the   *)
(* program adds and divides are 0 or lie between 2^-20 and 2^20, so each   *)
(* is a whole multiple of 2^-(24 * FracWords), and it is written as that   *)
(* multiple in base 2^24, least significant word first and without leading *)
(* zero words (0 is the empty sequence).  A sum, difference, product or    *)
(* quotient is computed exactly and then rounded to 53 significant bits,   *)
(* ties to even, which is what +, -, * and / of the runtime do.  A         *)
(* confidence that is only stored, compared or copied is kept as its       *)
(* number of hundredths k, which stands for the double Decimal(k).         *)
(***************************************************************************)
FracWords == 3

Zeros(n) == [j \in 1..n |-> 0]

WordAt(a, j) == IF j <= Len(a) THEN a[j] ELSE 0

\* without leading zero words
Canon(a) ==
  LET used == {j \in 1..Len(a) : a[j] # 0}
  IN IF used = {} THEN <<>>
     ELSE SubSeq(a, 1, CHOOSE m \in used : \A j \in used : j <= m)

\* exact sum, from word j on with the carry c
RECURSIVE AddWords(_, _, _, _)
AddWords(a, b, j, c) ==
  IF j > Len(a) /\ j > Len(b) THEN <<c>>
  ELSE <<(WordAt(a, j) + WordAt(b, j) + c) % 16777216>>
         \o AddWords(a, b, j + 1, (WordAt(a, j) + WordAt(b, j) + c) \div 16777216)

\* exact difference a - b for a >= b, from word j on with the borrow c
RECURSIVE SubWords(_, _, _, _)
SubWords(a, b, j, c) ==
  IF j > Len(a) THEN <<>>
  ELSE <<(16777216 + a[j] - WordAt(b, j) - c) % 16777216>>
         \o SubWords(a, b, j + 1, IF a[j] - WordAt(b, j) - c < 0 THEN 1 ELSE 0)

\* exact product with a natural number k below 128, from word j on
RECURSIVE MulWords(_, _, _, _)
MulWords(a, k, j, c) ==
  IF j > Len(a) THEN <<c>>
  ELSE <<(a[j] * k + c) % 16777216>>
         \o MulWords(a, k, j + 1, (a[j] * k + c) \div 16777216)

\* long division of the words j..1 of a by n (positive, below 128) with the
\* remainder r carried in: the remainder, followed by the quotient
RECURSIVE DivWords(_, _, _, _)
DivWords(a, n, j, r) ==
  IF j = 0 THEN <<r>>
  ELSE DivWords(a, n, j - 1, (16777216 * r + a[j]) % n)
         \o <<(16777216 * r + a[j]) \div n>>

\* the number of significant bits, the p-th bit, a with its p lowest bits
\* cleared, and 2^p
BitLength(a) ==
  IF a = <<>> THEN 0
  ELSE 24 * (Len(a) - 1)
       + CHOOSE k \in 1..24 : 2 ^ (k - 1) <= a[Len(a)] /\ a[Len(a)] < 2 ^ k

BitOf(a, p) == (WordAt(a, (p - 1) \div 24 + 1) \div 2 ^ ((p - 1) % 24)) % 2

ClearLow(a, p) ==
  [j \in 1..Len(a) |-> IF 24 * j <= p THEN 0
                       ELSE IF 24 * (j - 1) >= p THEN a[j]
                       ELSE a[j] - (a[j] % 2 ^ (p - 24 * (j - 1)))]

PowerOfTwo(p) == Zeros(p \div 24) \o <<2 ^ (p % 24)>>

\* round to nearest, ties to even, at 53 significant bits; inexact says
\* that the exact value lies above a by less than one unit
RoundBits(a, inexact) ==
  IF BitLength(a) <= 53 THEN a
  ELSE LET drop == BitLength(a) - 53
           half == BitOf(a, drop) = 1
           below == inexact \/ ClearLow(a, drop - 1) # a
           odd == BitOf(a, drop + 1) = 1
       IN IF half /\ (below \/ odd)
            THEN Canon(AddWords(ClearLow(a, drop), PowerOfTwo(drop), 1, 0))
            ELSE Canon(ClearLow(a, drop))

\* the number k, for a natural number k below 2^24
Num(k) == IF k = 0 THEN <<>> ELSE Zeros(FracWords) \o <<k>>

\* the element of a set of one element: the operations below take their
\* operands and intermediate results through it, each computed once
The(S) == CHOOSE v \in S : TRUE

\* x < y
NumLess(x, y) ==
  \E a \in {x}, b \in {y} :
    \/ Len(a) < Len(b)
    \/ /\ Len(a) = Len(b)
       /\ \E j \in 1..Len(a) : /\ a[j] < b[j]
                               /\ \A i \in (j + 1)..Len(a) : a[i] = b[i]

\* x + y
NumAdd(x, y) ==
  The({RoundBits(s, FALSE) : s \in {Canon(AddWords(a, b, 1, 0)) : a \in {x}, b \in {y}}})

\* x - y, for x >= y
NumSub(x, y) ==
  The({RoundBits(s, FALSE) : s \in {Canon(SubWords(a, b, 1, 0)) : a \in {x}, b \in {y}}})

\* x * k, for a natural number k below 128
NumTimes(x, k) ==
  The({RoundBits(s, FALSE) : s \in {Canon(MulWords(a, k, 1, 0)) : a \in {x}}})

\* the quotient of the words a by n, taken with FracWords further words,
\* rounded, and the further words, then all 0, dropped
Quotient(a, n) ==
  The({SubSeq(r, FracWords + 1, Len(r)) :
         r \in {RoundBits(Canon(Tail(d)), Head(d) # 0) :
                  d \in {DivWords(Zeros(FracWords) \o a, n, FracWords + Len(a), 0)}}})

\* x / n, for a natural number n, positive and below 128
NumOver(x, n) == The({IF a = <<>> THEN <<>> ELSE Quotient(a, n) : a \in {x}})

\* Math.min(x, y)
MathMin(x, y) == The({IF NumLess(b, a) THEN b ELSE a : a \in {x}, b \in {y}})

\* Math.round(x), for x below 2^23, as a natural number: halves go up
MathRound(x) ==
  The({WordAt(AddWords(a, Zeros(FracWords - 1) \o <<8388608>>, 1, 0), FracWords + 1) : a \in {x}})

\* the number written k / 100, which is the double nearest to it
Decimal(k) == NumOver(Num(k), 100)

(***************************************************************************)
(* NPI registry (the external service behind fetch in lookupNPI and        *)
(* searchNPIProgressive).  Every record of the data set carries the        *)
(* queried first and last name; a record is its practice state, city and   *)
(* taxonomy.  The response lists the matching records in registry order,   *)
(* written as runs of consecutive record numbers.                          *)
(***************************************************************************)
S_CA == <<"C","A">>

S_NY == <<"N","Y">>

S_LA == <<"L","A">>

S_SF == <<"S","F">>

S_CARD == <<"C","A","R","D">>

S_DERM == <<"D","E","R","M">>

Cells == <<[state |-> S_CA, city |-> S_LA,  taxonomy |-> S_CARD],
           [state |-> S_CA, city |-> S_LA,  taxonomy |-> S_DERM],
           [state |-> S_CA, city |-> S_SF,  taxonomy |-> S_CARD],
           [state |-> S_NY, city |-> S_LA,  taxonomy |-> S_CARD]>>

\* how many records each cell of the data set may hold
CellCounts == <<{0, 1, 4}, {0, 2}, {0, 4, 34}, {0, 1, 160}>>

RECURSIVE MakeRuns(_, _, _)
MakeRuns(n, i, next) ==
  IF i > Len(Cells) THEN <<>>
  ELSE <<[rec |-> Cells[i], lo |-> next, hi |-> next + n[i] - 1]>>
         \o MakeRuns(n, i + 1, next + n[i])

DataSets == {MakeRuns(<<n1, n2, n3, n4>>, 1, 1) :
               n1 \in CellCounts[1], n2 \in CellCounts[2],
               n3 \in CellCounts[3], n4 \in CellCounts[4]}

RECURSIVE Count(_)
Count(runs) ==
  IF runs = <<>> THEN 0
  ELSE (IF Head(runs).hi >= Head(runs).lo
          THEN Head(runs).hi - Head(runs).lo + 1 ELSE 0) + Count(Tail(runs))

\* the first n records of a response
RECURSIVE Page(_, _)
Page(runs, n) ==
  IF runs = <<>> \/ n <= 0 THEN <<>>
  ELSE LET h == Head(runs)
           c == IF h.hi >= h.lo THEN h.hi - h.lo + 1 ELSE 0
       IN IF c = 0 THEN Page(Tail(runs), n)
          ELSE IF c >= n THEN <<[h EXCEPT !.hi = h.lo + n - 1]>>
          ELSE <<h>> \o Page(Tail(runs), n - c)

\* results[i - 1] of a response (i counts from 1); 0 when out of range
RECURSIVE Nth(_, _)
Nth(runs, i) ==
  IF runs = <<>> THEN 0
  ELSE LET h == Head(runs)
           c == IF h.hi >= h.lo THEN h.hi - h.lo + 1 ELSE 0
       IN IF i <= c THEN h.lo + i - 1 ELSE Nth(Tail(runs), i - c)

\* the registry compares a filter with the stored value, ignoring case
RegistryMatch(rec, params) ==
  /\ params.state # UNDEFINED => toUpperCase(params.state) = rec.state
  /\ params.city # UNDEFINED => toUpperCase(params.city) = rec.city
  /\ params.taxonomy_description # UNDEFINED =>
       toUpperCase(params.taxonomy_description) = rec.taxonomy

RECURSIVE RegistrySelect(_, _)
RegistrySelect(runs, params) ==
  IF runs = <<>> THEN <<>>
  ELSE IF RegistryMatch(Head(runs).rec, params) /\ Head(runs).hi >= Head(runs).lo
         THEN <<Head(runs)>> \o RegistrySelect(Tail(runs), params)
         ELSE RegistrySelect(Tail(runs), params)

\* the JSON body the registry answers a request with
RegistryResponse(data, honours, params) ==
  LET all == RegistrySelect(data, params)
      res == IF honours THEN Page(all, params.limit) ELSE all
  IN [results |-> res, result_count |-> Count(res)]

(***************************************************************************)
(* State                                                                   *)
(***************************************************************************)
VARIABLES
  pc,            \* position of the running handler
  registry,      \* the registry's data set
  honoursLimit,  \* whether the registry caps a response at the limit sent
  searchResult,  \* handleNPILookup: let searchResult
  state,         \* handleNPILookup: let state
  city,          \* handleNPILookup: let city
  specialty,     \* handleNPILookup: let specialty
  status,        \* what the session has reported so far
  asked,         \* refinement questions put to the caller, with the count seen
  sent,          \* parameter sets of the registry requests, in order
  counts,        \* results.length after the base query and each re-query
  displayed,     \* number of list entries offered for selection
  selectedResult,\* handleNPILookup: let selectedResult (a record number)
  npiResult,     \* handleNPILookup: const npiResult
  vpc,           \* position of the verification run
  vQuery,        \* name, specialty, institution, xUsername passed to verifyPersonMatch
  vResult,       \* the search result (title, snippet) passed to verifyPersonMatch
  vOut,          \* the { score, factors } it returned
  vAcc,          \* verifyPersonMatch: let score, const factors where it returned
  vBase,         \* score and factors of the same call without the institution
  apc,           \* position of the aggregation run
  aQuery,        \* the DoctorQuery of the run
  aInput,        \* the extractions handed to the aggregator
  aPerm,         \* the same extractions in another order
  aOutCore,      \* aggregateDoctorInfo (medical-core.ts) on both orders
  aOutResearch,  \* aggregateMedicalInfo (medical-research.ts) on both orders
  aOutFixed,     \* aggregateMedicalInfo (medical-research-fixed.ts) on both orders
  rpc,           \* researchDoctor: the phase of the run
  rLimit,        \* ConcurrencyLimit
  rQuery,        \* researchDoctor: doctorQuery
  rSearch,       \* the search tasks handed to the limiter
  rResults,      \* researchDoctor: const searchResults
  rSources,      \* researchDoctor: const sourcesUsed
  rTasks,        \* the extraction tasks handed to the limiter
  rRecord,       \* the DoctorInfo the run returned
  spc,           \* enhancedWebScrape: position of the call
  sUrl,          \* enhancedWebScrape: url
  sSent,         \* indexes into userAgents of the requests sent, in order
  sSeen,         \* the answers to these requests, in order
  sReturn,       \* what the call returned
  fpc,           \* position of the finder call
  fQuery,        \* findDoctorSocialMedia: query
  fLeft,         \* searches of the list not yet made
  fSeen,         \* performBroadSearch / performTargetedSearch: seenUrls
  fResults,      \* performBroadSearch / performTargetedSearch: results
  fReturn,       \* the SocialMediaFinder returned
  xpc,           \* analyzeXProfile: position of the call
  xQuery,        \* analyzeXProfile: xQuery
  xTwitterId,    \* analyzeXProfile: const twitterId
  xProfile,      \* analyzeXProfile: const profileData
  xEnhanced,     \* analyzeXProfile: const enhancedContent
  xReturn        \* the XProfileAnalysis returned

npiVars == <<pc, registry, honoursLimit, searchResult, state, city, specialty,
             status, asked, sent, counts, displayed, selectedResult, npiResult>>

verVars == <<vpc, vQuery, vResult, vOut, vAcc, vBase>>

aggVars == <<apc, aQuery, aInput, aPerm, aOutCore, aOutResearch, aOutFixed>>

runVars == <<rpc, rLimit, rQuery, rSearch, rResults, rSources, rTasks, rRecord>>

scrapeVars == <<spc, sUrl, sSent, sSeen, sReturn>>

finderVars == <<fpc, fQuery, fLeft, fSeen, fResults, fReturn>>

xVars == <<xpc, xQuery, xTwitterId, xProfile, xEnhanced, xReturn>>

vars == <<npiVars, verVars, aggVars, runVars, scrapeVars, finderVars, xVars>>

notNpiVars == <<verVars, aggVars, runVars, scrapeVars, finderVars, xVars>>

notVerVars == <<npiVars, aggVars, runVars, scrapeVars, finderVars, xVars>>

notAggVars == <<npiVars, verVars, runVars, scrapeVars, finderVars, xVars>>

notRunVars == <<npiVars, verVars, aggVars, scrapeVars, finderVars, xVars>>

notScrapeVars == <<npiVars, verVars, aggVars, runVars, finderVars, xVars>>

notFinderVars == <<npiVars, verVars, aggVars, runVars, scrapeVars, xVars>>

notXVars == <<npiVars, verVars, aggVars, runVars, scrapeVars, finderVars>>

\* the variables a specification of one component leaves alone
NpiIdle ==
  /\ pc = "idle"
  /\ registry = <<>>
  /\ honoursLimit = FALSE
  /\ searchResult = <<>>
  /\ state = UNDEFINED
  /\ city = UNDEFINED
  /\ specialty = UNDEFINED
  /\ status = "idle"
  /\ asked = <<>>
  /\ sent = <<>>
  /\ counts = <<>>
  /\ displayed = 0
  /\ selectedResult = 0
  /\ npiResult = UNDEFINED

VerIdle ==
  /\ vpc = "idle"
  /\ vQuery = <<>>
  /\ vResult = <<>>
  /\ vOut = <<>>
  /\ vAcc = <<>>
  /\ vBase = <<>>

XIdle ==
  /\ xpc = "idle"
  /\ xQuery = <<>>
  /\ xTwitterId = NULL
  /\ xProfile = NULL
  /\ xEnhanced = NULL
  /\ xReturn = NULL

FinderIdle ==
  /\ fpc = "idle"
  /\ fQuery = <<>>
  /\ fLeft = 0
  /\ fSeen = {}
  /\ fResults = <<>>
  /\ fReturn = <<>>

AggIdle ==
  /\ apc = "idle"
  /\ aQuery = <<>>
  /\ aInput = <<>>
  /\ aPerm = <<>>
  /\ aOutCore = <<>>
  /\ aOutResearch = <<>>
  /\ aOutFixed = <<>>

RunIdle ==
  /\ rpc = "idle"
  /\ rLimit = 0
  /\ rQuery = <<>>
  /\ rSearch = <<>>
  /\ rResults = <<>>
  /\ rSources = <<>>
  /\ rTasks = <<>>
  /\ rRecord = <<>>

ScrapeIdle ==
  /\ spc = "idle"
  /\ sUrl = <<>>
  /\ sSent = <<>>
  /\ sSeen = <<>>
  /\ sReturn = 0

\* what the caller may type at each prompt
StateInputs == {<<>>, <<" ">>, <<"\t">>, S_CA, <<"c","a">>, <<"C","A"," ">>, <<"\t","C","A">>,
                S_NY, <<"T","X">>}

CityInputs == {<<>>, <<" ">>, S_LA, <<"l","a">>, S_SF}

SpecialtyInputs == {<<>>, S_CARD, S_DERM}

\* variant: the state question is put whenever there is any result
StateThreshold_m == 1 - 1

StateThreshold == 10

CityThreshold == 5

\* variant: the specialty tier reuses a larger threshold
SpecialtyThreshold_m == 5 + 1

SpecialtyThreshold == 3

DisplayCap == 10

ProgressiveLimit == 50

LookupLimit == 200

NoResult == [results |-> <<>>, total_count |-> 0]

(***************************************************************************)
(* searchNPIProgressive: one registry request; ok is whether the request   *)
(* succeeded (a transport error or a non-2xx status is caught).            *)
(***************************************************************************)
\* variant: the state filter is left out once a city is given
ProgressiveParams_m(st, ci, sp) ==
  [limit |-> ProgressiveLimit,
   state |-> IF Truthy(st) /\ ~Truthy(ci) THEN toUpperCase(st) ELSE UNDEFINED,
   city |-> IF Truthy(ci) THEN ci ELSE UNDEFINED,
   taxonomy_description |-> IF Truthy(sp) THEN sp ELSE UNDEFINED]

ProgressiveParams(st, ci, sp) ==
  [limit |-> ProgressiveLimit,
   state |-> IF Truthy(st) THEN toUpperCase(st) ELSE UNDEFINED,
   city |-> IF Truthy(ci) THEN ci ELSE UNDEFINED,
   taxonomy_description |-> IF Truthy(sp) THEN sp ELSE UNDEFINED]

searchNPIProgressive(st, ci, sp, ok) ==
  IF ok
    THEN LET data == RegistryResponse(registry, honoursLimit, ProgressiveParams(st, ci, sp))
         IN [results |-> data.results, total_count |-> data.result_count]
    ELSE NoResult

NpiInit ==
  /\ pc = "start"
  /\ registry \in DataSets
  /\ honoursLimit \in BOOLEAN
  /\ searchResult = NoResult
  /\ state = UNDEFINED
  /\ city = UNDEFINED
  /\ specialty = UNDEFINED
  /\ status = "Unfiltered"
  /\ asked = <<>>
  /\ sent = <<>>
  /\ counts = <<>>
  /\ displayed = 0
  /\ selectedResult = 0
  /\ npiResult = UNDEFINED

\* Step 2: the base query with the name only
BaseSearch ==
  /\ pc = "start"
  /\ \E ok \in BOOLEAN :
       LET r == searchNPIProgressive(UNDEFINED, UNDEFINED, UNDEFINED, ok)
       IN /\ searchResult' = r
          /\ sent' = Append(sent, ProgressiveParams(UNDEFINED, UNDEFINED, UNDEFINED))
          /\ counts' = Append(counts, Count(r.results))
          /\ IF r.total_count = 0
               THEN /\ status' = "NotFound"
                    /\ pc' = "done"
               ELSE /\ status' = "Narrowing"
                    /\ pc' = "state"
  /\ UNCHANGED <<registry, honoursLimit, state, city, specialty, asked,
                 displayed, selectedResult, npiResult,
                 notNpiVars>>

\* Step 3, first tier: filter by state if too many results
StateStep ==
  /\ pc = "state"
  /\ pc' = "city"
  /\ IF Count(searchResult.results) > StateThreshold
       THEN \E input \in StateInputs, ok \in BOOLEAN :
              /\ state' = input
              /\ asked' = Append(asked, [dim |-> "state", count |-> Count(searchResult.results)])
              /\ IF Truthy(input) /\ Truthy(trim(input))
                   THEN LET r == searchNPIProgressive(trim(input), UNDEFINED, UNDEFINED, ok)
                        IN /\ searchResult' = r
                           /\ sent' = Append(sent, ProgressiveParams(trim(input), UNDEFINED, UNDEFINED))
                           /\ counts' = Append(counts, Count(r.results))
                   ELSE UNCHANGED <<searchResult, sent, counts>>
       ELSE UNCHANGED <<state, asked, searchResult, sent, counts>>
  /\ UNCHANGED <<registry, honoursLimit, city, specialty, status,
                 displayed, selectedResult, npiResult,
                 notNpiVars>>

\* variant: the city question is repeated until the list is short enough
CityStep_m ==
  /\ pc = "city"
  /\ IF Count(searchResult.results) > CityThreshold
       THEN \E input \in CityInputs, ok \in BOOLEAN :
              /\ city' = input
              /\ asked' = Append(asked, [dim |-> "city", count |-> Count(searchResult.results)])
              /\ IF Truthy(input) /\ Truthy(trim(input))
                   THEN LET r == searchNPIProgressive(state, trim(input), UNDEFINED, ok)
                        IN /\ searchResult' = r
                           /\ sent' = Append(sent, ProgressiveParams(state, trim(input), UNDEFINED))
                           /\ counts' = Append(counts, Count(r.results))
                   ELSE UNCHANGED <<searchResult, sent, counts>>
              /\ pc' = IF Count(searchResult'.results) > CityThreshold THEN "city" ELSE "specialty"
       ELSE /\ pc' = "specialty"
            /\ UNCHANGED <<city, asked, searchResult, sent, counts>>
  /\ UNCHANGED <<registry, honoursLimit, state, specialty, status,
                 displayed, selectedResult, npiResult,
                 notNpiVars>>

\* Step 3, second tier: filter by city if still too many results
CityStep ==
  /\ pc = "city"
  /\ pc' = "specialty"
  /\ IF Count(searchResult.results) > CityThreshold
       THEN \E input \in CityInputs, ok \in BOOLEAN :
              /\ city' = input
              /\ asked' = Append(asked, [dim |-> "city", count |-> Count(searchResult.results)])
              /\ IF Truthy(input) /\ Truthy(trim(input))
                   THEN LET r == searchNPIProgressive(state, trim(input), UNDEFINED, ok)
                        IN /\ searchResult' = r
                           /\ sent' = Append(sent, ProgressiveParams(state, trim(input), UNDEFINED))
                           /\ counts' = Append(counts, Count(r.results))
                   ELSE UNCHANGED <<searchResult, sent, counts>>
       ELSE UNCHANGED <<city, asked, searchResult, sent, counts>>
  /\ UNCHANGED <<registry, honoursLimit, state, specialty, status,
                 displayed, selectedResult, npiResult,
                 notNpiVars>>

\* Step 3, third tier: filter by specialty if still too many results
SpecialtyStep ==
  /\ pc = "specialty"
  /\ pc' = "handle"
  /\ IF Count(searchResult.results) > SpecialtyThreshold
       THEN \E input \in SpecialtyInputs, ok \in BOOLEAN :
              /\ specialty' = input
              /\ asked' = Append(asked, [dim |-> "specialty", count |-> Count(searchResult.results)])
              /\ IF Truthy(input) /\ Truthy(trim(input))
                   THEN LET r == searchNPIProgressive(state, city, trim(input), ok)
                        IN /\ searchResult' = r
                           /\ sent' = Append(sent, ProgressiveParams(state, city, trim(input)))
                           /\ counts' = Append(counts, Count(r.results))
                   ELSE UNCHANGED <<searchResult, sent, counts>>
       ELSE UNCHANGED <<specialty, asked, searchResult, sent, counts>>
  /\ UNCHANGED <<registry, honoursLimit, state, city, status,
                 displayed, selectedResult, npiResult,
                 notNpiVars>>

\* variant: the empty-list check of Step 4 is missing
HandleResults_m ==
  /\ pc = "handle"
  /\ IF Count(searchResult.results) = 1
       THEN /\ status' = "Resolved"
            /\ selectedResult' = Nth(searchResult.results, 1)
            /\ pc' = "lookup"
            /\ UNCHANGED displayed
       ELSE /\ status' = "Ambiguous"
            /\ displayed' = Min(Count(searchResult.results), DisplayCap)
            /\ pc' = IF Count(searchResult.results) = 0 THEN "lookup" ELSE "select"
            /\ UNCHANGED selectedResult
  /\ UNCHANGED <<registry, honoursLimit, searchResult, state, city, specialty,
                 asked, sent, counts, npiResult,
                 notNpiVars>>

\* Step 4: none, exactly one, or a list to choose from
HandleResults ==
  /\ pc = "handle"
  /\ IF Count(searchResult.results) = 0
       THEN /\ status' = "NotFound"
            /\ pc' = "done"
            /\ UNCHANGED <<selectedResult, displayed>>
       ELSE IF Count(searchResult.results) = 1
         THEN /\ status' = "Resolved"
              /\ selectedResult' = Nth(searchResult.results, 1)
              /\ pc' = "lookup"
              /\ UNCHANGED displayed
         ELSE /\ status' = "Ambiguous"
              /\ displayed' = Min(Count(searchResult.results), DisplayCap)
              /\ pc' = "select"
              /\ UNCHANGED selectedResult
  /\ UNCHANGED <<registry, honoursLimit, searchResult, state, city, specialty,
                 asked, sent, counts, npiResult,
                 notNpiVars>>

\* the caller picks an entry of the displayed list (invalid entries are re-asked)
SelectResult ==
  /\ pc = "select"
  /\ \E selection \in 1..Min(Count(searchResult.results), DisplayCap) :
       selectedResult' = Nth(searchResult.results, selection)
  /\ pc' = "lookup"
  /\ UNCHANGED <<registry, honoursLimit, searchResult, state, city, specialty,
                 status, asked, sent, counts, displayed, npiResult,
                 notNpiVars>>

(***************************************************************************)
(* lookupNPI: a fresh registry request; the first result is reported       *)
(***************************************************************************)
LookupParams(q) ==
  [limit |-> LookupLimit,
   state |-> IF Truthy(q.state) THEN toUpperCase(q.state) ELSE UNDEFINED,
   city |-> IF Truthy(q.city) THEN q.city ELSE UNDEFINED,
   taxonomy_description |-> IF Truthy(q.specialty) THEN q.specialty ELSE UNDEFINED]

lookupNPI(q, ok) ==
  IF ~ok
    THEN [npi_number |-> "Error", confidence_score |-> 0]
    ELSE LET data == RegistryResponse(registry, honoursLimit, LookupParams(q))
         IN IF Count(data.results) = 0
              THEN [npi_number |-> "Not found", confidence_score |-> 0]
              ELSE [npi_number |-> Nth(data.results, 1), confidence_score |-> 90]

\* x?.trim()
OptTrim(x) == IF x = UNDEFINED THEN UNDEFINED ELSE trim(x)

\* Step 5: build the NPIQuery from the answers and look the provider up
FinalLookup ==
  /\ pc = "lookup"
  /\ \E ok \in BOOLEAN :
       npiResult' = lookupNPI([state |-> OptTrim(state), city |-> OptTrim(city),
                               specialty |-> OptTrim(specialty)], ok)
  /\ pc' = "done"
  /\ UNCHANGED <<registry, honoursLimit, searchResult, state, city, specialty,
                 status, asked, sent, counts, displayed, selectedResult,
                 notNpiVars>>

NpiNext ==
  \/ BaseSearch
  \/ StateStep
  \/ CityStep
  \/ SpecialtyStep
  \/ HandleResults
  \/ SelectResult
  \/ FinalLookup

InitNPI == NpiInit /\ VerIdle /\ AggIdle /\ RunIdle /\ ScrapeIdle /\ FinderIdle /\ XIdle

SpecNPI == InitNPI /\ [][NpiNext]_vars

\* the caller was asked for the dimension and answered with a blank line
Skipped(answer) == answer # UNDEFINED /\ trim(answer) = <<>>

\* the filters of a registry request
FilterSet(params) == <<params.state, params.city, params.taxonomy_description>>

\* a skipped dimension triggers no registry query: there is the base query and
\* one query per dimension asked and answered
C28_NoQueryOnSkip ==
  pc \in {"handle", "select", "lookup", "done"} /\ status # "NotFound" =>
    /\ Len(sent) = Len(counts)
    /\ Len(sent) = 1 + Cardinality({answer \in {[d |-> "state", v |-> state],
                                               [d |-> "city", v |-> city],
                                               [d |-> "specialty", v |-> specialty]} :
                                      answer.v # UNDEFINED /\ ~Skipped(answer.v)})

\* a skipped dimension is in the filters of no progressive query
C28_SkippedNeverSent ==
  \A i \in 1..Len(sent) :
    /\ Skipped(state) => sent[i].state = UNDEFINED
    /\ Skipped(city) => sent[i].city = UNDEFINED
    /\ Skipped(specialty) => sent[i].taxonomy_description = UNDEFINED

\* the final lookup filters by what the last progressive query filtered by
C28_LookupSameFilters ==
  pc = "done" /\ status \in {"Resolved", "Ambiguous"} =>
    FilterSet(LookupParams([state |-> OptTrim(state), city |-> OptTrim(city),
                            specialty |-> OptTrim(specialty)]))
      = FilterSet(sent[Len(sent)])

\* C28: a refinement dimension the caller skipped with a blank or whitespace-only
\* answer triggers no registry query, is sent as a filter in no later query of
\* the session, and the final lookup uses the filters of the last progressive
\* query.
C28_SkippedDimension ==
  C28_NoQueryOnSkip /\ C28_SkippedNeverSent /\ C28_LookupSameFilters

\* C29: a session is NotFound only when the registry holds no record that matches
\* the filters of the last request: a request that failed is not reported as
\* NotFound.
C29_NotFoundMeansNoMatch ==
  status = "NotFound" => Count(RegistrySelect(registry, sent[Len(sent)])) = 0

(***************************************************************************)
(* Properties of the disambiguation session (SpecNPI)                      *)
(***************************************************************************)
LastCount == counts[Len(counts)]

DimRank(d) == CASE d = "state" -> 1 [] d = "city" -> 2 [] d = "specialty" -> 3

\* C4: the result count after each re-query is at most the count before it
C4_MonotoneCounts ==
  \A i \in 1..(Len(counts) - 1) : counts[i + 1] <= counts[i]

\* three refinements were applied, each one narrowing a non-empty list
C4_Witness ==
  /\ Len(counts) = 4
  /\ counts[4] > 0 /\ counts[4] < counts[3]
  /\ counts[3] < counts[2] /\ counts[2] < counts[1]

\* C7: Scenario C. 200 results ask for the state, 40 for the city, 6 for the
\* specialty, and 4 remaining results end Ambiguous with those 4 on offer
C7_ScenarioC ==
  /\ (Len(counts) >= 1 /\ counts[1] = 200 /\ pc \notin {"start", "state"})
       => (Len(asked) >= 1 /\ asked[1].dim = "state")
  /\ (Len(counts) >= 2 /\ counts[1] = 200 /\ counts[2] = 40
        /\ pc \notin {"start", "state", "city"})
       => (Len(asked) >= 2 /\ asked[2].dim = "city")
  /\ (Len(counts) >= 3 /\ counts[1] = 200 /\ counts[2] = 40 /\ counts[3] = 6
        /\ pc \notin {"start", "state", "city", "specialty"})
       => (Len(asked) >= 3 /\ asked[3].dim = "specialty")
  /\ (counts = <<200, 40, 6, 4>> /\ pc \in {"select", "lookup", "done"})
       => (/\ status = "Ambiguous"
           /\ displayed = 4
           /\ Count(searchResult.results) = 4)

C7_Witness ==
  /\ counts = <<200, 40, 6, 4>>
  /\ pc = "select"
  /\ [i \in 1..Len(asked) |-> asked[i].dim] = <<"state", "city", "specialty">>

\* C8: a dimension is asked for only above its threshold, and a base query
\* with exactly one result is Resolved without any question
C8_AskOnlyAboveThreshold ==
  /\ \A i \in 1..Len(asked) :
       /\ asked[i].dim = "state" => asked[i].count > 10
       /\ asked[i].dim = "city" => asked[i].count > 5
       /\ asked[i].dim = "specialty" => asked[i].count > 3
  /\ (Len(counts) >= 1 /\ counts[1] = 1) =>
       (/\ asked = <<>>
        /\ Len(sent) = 1
        /\ pc \in {"lookup", "done"} => status = "Resolved")

C8_Witness ==
  /\ pc = "done"
  /\ counts = <<1>>
  /\ status = "Resolved"
  /\ asked = <<>>

\* C9: each dimension is asked for at most once, in the order state, city,
\* specialty, and at most three re-queries follow the base query
C9_AskOnce ==
  /\ \A i, j \in 1..Len(asked) : i < j => DimRank(asked[i].dim) < DimRank(asked[j].dim)
  /\ Len(sent) <= 4
  /\ Len(sent) <= Len(asked) + 1

C9_Witness ==
  /\ Len(asked) = 3
  /\ Len(sent) = 4
  /\ pc = "done"

\* C10: a finished session is NotFound, Resolved or Ambiguous according to the
\* last result count, and nothing is asked or re-queried after that
TerminalStatus == {"NotFound", "Resolved", "Ambiguous"}

TerminalStays ==
  status \in TerminalStatus =>
    (status' = status /\ asked' = asked /\ sent' = sent /\ counts' = counts)

C10_TerminalByCount ==
  /\ [](pc \in {"select", "lookup", "done"} =>
          status = (IF LastCount = 0 THEN "NotFound"
                    ELSE IF LastCount = 1 THEN "Resolved" ELSE "Ambiguous"))
  /\ [](status \in TerminalStatus <=> pc \in {"select", "lookup", "done"})
  /\ [][TerminalStays]_vars

\* a refinement emptied the list and the session ended NotFound
C10_Witness ==
  /\ pc = "done"
  /\ status = "NotFound"
  /\ Len(counts) >= 2
  /\ counts[1] > 1

\* C27: in a session that ended Ambiguous the record reported is the entry the
\* caller selected from the displayed 1..min(count, 10) entries, and in a session
\* that ended Resolved it is the single remaining record (the final lookup
\* having succeeded)
C27_ReportedIsSelected ==
  (pc = "done" /\ status \in {"Resolved", "Ambiguous"} /\ npiResult.confidence_score = 90) =>
    /\ status = "Ambiguous" =>
         \E i \in 1..Min(Count(searchResult.results), DisplayCap) :
           selectedResult = Nth(searchResult.results, i)
    /\ status = "Resolved" => selectedResult = Nth(searchResult.results, 1)
    /\ npiResult.npi_number = selectedResult

\* the selection part of C27 alone
C27_SelectionWithinList ==
  (pc \in {"lookup", "done"} /\ status = "Ambiguous") =>
    \E i \in 1..Min(Count(searchResult.results), DisplayCap) :
      selectedResult = Nth(searchResult.results, i)

(***************************************************************************)
(* verifyPersonMatch (social media and website finder)                     *)
(***************************************************************************)
medicalCredentials == <<<<"m", "d">>,
                      <<"d", "o">>,
                      <<"p", "h", "d">>,
                      <<"d", "r", ".">>,
                      <<"d", "o", "c", "t", "o", "r">>,
                      <<"p", "h", "y", "s", "i", "c", "i", "a", "n">>>>

medicalKeywords == <<<<"h", "o", "s", "p", "i", "t", "a", "l">>,
                   <<"c", "l", "i", "n", "i", "c">>,
                   <<"m", "e", "d", "i", "c", "a", "l">>,
                   <<"h", "e", "a", "l", "t", "h">>,
                   <<"u", "n", "i", "v", "e", "r", "s", "i", "t", "y">>,
                   <<"p", "r", "o", "f", "e", "s", "s", "o", "r">>,
                   <<"r", "e", "s", "e", "a", "r", "c", "h">>>>

Range(seq) == {seq[i] : i \in 1..Len(seq)}

\* seq.filter(x => pred(x)): the elements satisfying the predicate (given as
\* the set keep of the values that satisfy it), in their order
filterBy(seq, keep) ==
  LET idx == {i \in 1..Len(seq) : seq[i] \in keep}
  IN [k \in 1..Cardinality(idx) |->
        seq[CHOOSE i \in idx : Cardinality({j \in idx : j <= i}) = k]]

\* Math.ceil(n * 0.7)
Ceil70(n) == (7 * n + 9) \div 10

NameMatchScore == 40

PartialNameScore == 20

StrongInstitutionScore == 25

PartialInstitutionScore == 10

InstitutionPenalty == 20

UsernameScore == 20

CredentialScore == 15

SpecialtyScore == 15

ContextScore == 5

MinimumScore == 30

\* variant: name parts are compared with the whole words of the text
nameMatchesOf_m(nameParts, resultText) ==
  LET words == split(resultText)
      hit(part) == Len(part) > 2 /\ \E i \in 1..Len(words) : words[i] = part
  IN filterBy(nameParts, {x \in Range(nameParts) : hit(x)})

\* nameParts.filter(part => part.length > 2 && resultText.includes(part))
nameMatchesOf(nameParts, resultText) ==
  LET hit(part) == Len(part) > 2 /\ includes(resultText, part)
  IN filterBy(nameParts, {x \in Range(nameParts) : hit(x)})

\* variant: the partial-match threshold is rounded down
nameGate_m(matched, total) ==
  IF matched = total THEN "complete"
  ELSE IF matched >= (7 * total) \div 10 THEN "partial"
  ELSE "insufficient"

\* the if / else if / else on nameMatches.length (lines 1535-1545)
nameGate(matched, total) ==
  IF matched = total THEN "complete"
  ELSE IF matched >= Ceil70(total) THEN "partial"
  ELSE "insufficient"

\* variant: the score is returned as accumulated
ClampScore_m(score) == score

\* Math.min(score, 1.0)
ClampScore(score) == MathMin(score, Num(1))

\* the locals score and factors of verifyPersonMatch where it stops adding:
\* at the name-gate return (nothing added yet) or before the threshold test
\* if (found) score += points, the points in hundredths
AddWhen(found, score, points) == IF found THEN NumAdd(score, Decimal(points)) ELSE score

\* if (found) factors.push(factor)
PushWhen(found, factors, factor) == IF found THEN Append(factors, factor) ELSE factors

\* the institution step of the score: += 0.25 on a strong match, += 0.1 on a
\* partial one, -= 0.2 on none, nothing when no institution is given
InstitutionStep(score, given, strong, partial) ==
  IF ~given THEN score
  ELSE IF strong THEN NumAdd(score, Decimal(StrongInstitutionScore))
  ELSE IF partial THEN NumAdd(score, Decimal(PartialInstitutionScore))
  ELSE NumSub(score, Decimal(InstitutionPenalty))

accumulated(result, name, spec, institution, xUsername) ==
  LET resultText == toLowerCase(result.title \o <<" ">> \o result.snippet)
      nameParts == split(toLowerCase(name))
      nameMatches == nameMatchesOf(nameParts, resultText)
      gate == nameGate(Len(nameMatches), Len(nameParts))
      complete == gate = "complete"
      s1 == NumAdd(Num(0), Decimal(IF complete THEN NameMatchScore ELSE PartialNameScore))
      f1 == IF complete
              THEN <<[factor |-> "Complete name match", detail |-> nameMatches]>>
              ELSE <<[factor |-> "Partial name match", detail |-> nameMatches]>>
      \* institution
      institutionWords == IF Truthy(institution) THEN split(toLowerCase(institution)) ELSE <<>>
      instHit(word) == Len(word) > 2 /\ includes(resultText, word)
      institutionMatches == filterBy(institutionWords, {x \in Range(institutionWords) : instHit(x)})
      strong == Len(institutionMatches) >= Ceil70(Len(institutionWords))
      s2 == InstitutionStep(s1, Truthy(institution), strong, Len(institutionMatches) > 0)
      f2 == PushWhen(Truthy(institution), f1,
              IF strong
                THEN [factor |-> "Strong institution match", detail |-> <<institution>>]
              ELSE IF Len(institutionMatches) > 0
                THEN [factor |-> "Partial institution match", detail |-> institutionMatches]
              ELSE [factor |-> "Institution mismatch - possible different person",
                    detail |-> <<>>])
      \* X username
      usernameInContent ==
        /\ Truthy(xUsername)
        /\ \/ includes(resultText, toLowerCase(xUsername))
           \/ includes(resultText, <<"@">> \o toLowerCase(xUsername))
      s3 == AddWhen(usernameInContent, s2, UsernameScore)
      f3 == PushWhen(usernameInContent, f2,
                     [factor |-> "X username match", detail |-> <<xUsername>>])
      \* credentials
      hasCredentials == \E i \in 1..Len(medicalCredentials) :
                          includes(resultText, medicalCredentials[i])
      s4 == AddWhen(hasCredentials, s3, CredentialScore)
      f4 == PushWhen(hasCredentials, f3,
                     [factor |-> "Medical credentials found", detail |-> <<>>])
      \* specialty
      specialtyWords == IF Truthy(spec) THEN split(toLowerCase(spec)) ELSE <<>>
      specHit(word) == Len(word) > 3 /\ includes(resultText, word)
      specialtyMatches == filterBy(specialtyWords, {x \in Range(specialtyWords) : specHit(x)})
      s5 == AddWhen(Len(specialtyMatches) > 0, s4, SpecialtyScore)
      f5 == PushWhen(Len(specialtyMatches) > 0, f4,
                     [factor |-> "Specialty match", detail |-> specialtyMatches])
      \* medical context
      ctxHit(keyword) == includes(resultText, keyword)
      medicalMatches == filterBy(medicalKeywords, {x \in Range(medicalKeywords) : ctxHit(x)})
      s6 == AddWhen(Len(medicalMatches) > 0, s5, ContextScore)
      f6 == PushWhen(Len(medicalMatches) > 0, f5,
                     [factor |-> "Medical context", detail |-> medicalMatches])
  IN IF gate = "insufficient"
       THEN [gate |-> gate, score |-> Num(0), factors |-> <<>>]
       ELSE [gate |-> gate, score |-> s6, factors |-> f6]

verifyPersonMatch(result, name, spec, institution, xUsername) ==
  The({IF acc.gate = "insufficient"
         THEN [score |-> Num(0),
               factors |-> <<[factor |-> "Insufficient name match - likely different person",
                              detail |-> <<>>]>>]
       ELSE IF NumLess(acc.score, Decimal(MinimumScore))
         THEN [score |-> Num(0),
               factors |-> <<[factor |-> "Low confidence - likely different person",
                              detail |-> <<>>]>>]
       ELSE [score |-> ClampScore(acc.score), factors |-> acc.factors] :
       acc \in {accumulated(result, name, spec, institution, xUsername)}})

\* the queries and search results the verifier is run on
VerifyNames == {<<"a", "n", "n", " ", "l", "e", "e">>,
                <<"A", "n", "n", " ", "L", "e", "e">>,
                <<"j", "o", " ", "l", "i">>,
                <<"a", "n", "n", " ", "m", "a", "e", " ", "l", "e", "e", " ", "j", "r">>}

VerifyInstitutions == {UNDEFINED,
                       <<"M", "e", "r", "c", "y", " ", "H", "o", "s", "p", "i", "t", "a", "l">>,
                       <<"M", "a", "y", "o", " ", "C", "l", "i", "n", "i", "c", " ", "C", "e", "n", "t", "e", "r">>}

VerifySpecialties == {UNDEFINED, <<"C", "a", "r", "d", "i", "o", "l", "o", "g", "y">>}

VerifyUsernames == {UNDEFINED, <<"a", "n", "n", "l", "e", "e">>}

VerifyResults ==
  {[title |-> <<"D", "r", ".", " ", "A", "n", "n", " ", "L", "e", "e", " ", "M", "D">>,
    snippet |-> <<"c", "a", "r", "d", "i", "o", "l", "o", "g", "y", " ", "a", "t", " ", "m", "e", "r", "c", "y", " ", "h", "o", "s", "p", "i", "t", "a", "l">>],
   [title |-> <<"J", "o", "a", "n", "n", "e", " ", "F", "l", "e", "e", "t">>,
    snippet |-> <<"p", "l", "a", "n", "n", "i", "n", "g">>],
   [title |-> <<"B", "o", "b", " ", "R", "o", "s", "s">>,
    snippet |-> <<"p", "a", "i", "n", "t", "e", "r">>],
   [title |-> <<"A", "n", "n", " ", "M", "a", "e", " ", "L", "e", "e">>,
    snippet |-> <<"m", "a", "y", "o", " ", "s", "t", "a", "f", "f">>],
   [title |-> <<"a", "n", "n", " ", "l", "e", "e">>,
    snippet |-> <<>>],
   [title |-> <<"L", "e", "e">>,
    snippet |-> <<"@", "a", "n", "n", "l", "e", "e", " ", "p", "h", "y", "s", "i", "c", "i", "a", "n">>],
   [title |-> <<"D", "r", ".", " ", "A", "n", "n", " ", "L", "e", "e", " ", "M", "D", " ", "@", "a", "n", "n", "l", "e", "e">>,
    snippet |-> <<"c", "a", "r", "d", "i", "o", "l", "o", "g", "y", " ", "a", "t", " ", "m", "e", "r", "c", "y", " ", "h", "o", "s", "p", "i", "t", "a", "l">>],
   [title |-> <<"J", "o", " ", "L", "i">>,
    snippet |-> <<"j", "o", " ", "l", "i", " ", "m", "d", " ", "m", "e", "r", "c", "y", " ", "h", "o", "s", "p", "i", "t", "a", "l">>]}

VerInit ==
  /\ vpc = "ready"
  /\ vQuery \in [name : VerifyNames, specialty : VerifySpecialties,
                 institution : VerifyInstitutions, xUsername : VerifyUsernames]
  /\ vResult \in VerifyResults
  /\ vOut = <<>>
  /\ vAcc = <<>>
  /\ vBase = <<>>

VerifyStep ==
  /\ vpc = "ready"
  /\ vOut' = verifyPersonMatch(vResult, vQuery.name, vQuery.specialty,
                               vQuery.institution, vQuery.xUsername)
  /\ vAcc' = accumulated(vResult, vQuery.name, vQuery.specialty,
                         vQuery.institution, vQuery.xUsername)
  /\ vpc' = "done"
  /\ UNCHANGED <<vQuery, vResult, vBase, notVerVars>>

\* the same result and name verified again with the institution left out
VerifyNoHint ==
  /\ vpc = "done"
  /\ vBase' = accumulated(vResult, vQuery.name, vQuery.specialty,
                          UNDEFINED, vQuery.xUsername)
  /\ vpc' = "compared"
  /\ UNCHANGED <<vQuery, vResult, vOut, vAcc, notVerVars>>

VerNext == VerifyStep \/ VerifyNoHint

InitVerify == VerInit /\ NpiIdle /\ AggIdle /\ RunIdle /\ ScrapeIdle /\ FinderIdle /\ XIdle

SpecVerify == InitVerify /\ [][VerNext]_vars

\* the words of the candidate text and of the query name
TextTokens == {t \in {split(toLowerCase(vResult.title \o <<" ">> \o vResult.snippet))[i] :
                 i \in 1..Len(split(toLowerCase(vResult.title \o <<" ">> \o vResult.snippet)))} :
                 t # <<>>}

NameTokens == {t \in {split(toLowerCase(vQuery.name))[i] :
                 i \in 1..Len(split(toLowerCase(vQuery.name)))} : t # <<>>}

\* C3: a candidate text that shares no token with the query name is rejected
\* with score 0, whatever else matches
C3_NoSharedTokenRejected ==
  (vpc = "done" /\ TextTokens \cap NameTokens = {}) => vOut.score = Num(0)

\* the lower-cased candidate text and the pieces of the lower-cased query name
ResultText == toLowerCase(vResult.title \o <<" ">> \o vResult.snippet)

NameParts == split(toLowerCase(vQuery.name))

\* how many pieces of the query name occur in the candidate text
NamePartsFound == Cardinality({i \in 1..Len(NameParts) : includes(ResultText, NameParts[i])})

\* the institution is given and none of its words occurs in the candidate text
HintAbsent ==
  /\ Truthy(vQuery.institution)
  /\ \A w \in Range(split(toLowerCase(vQuery.institution))) : ~includes(ResultText, w)

IsMismatchFactor(f) == f.factor = "Institution mismatch - possible different person"

\* C15: the returned score is 0 or lies between the minimum threshold 0.3
\* and 1; an accumulated score below the threshold is returned as 0 and an
\* accumulated score above 1 is returned as 1
C15_ScoreRange ==
  vpc = "done" =>
    /\ \/ vOut.score = Num(0)
       \/ ~NumLess(vOut.score, Decimal(30)) /\ ~NumLess(Num(1), vOut.score)
    /\ NumLess(vAcc.score, Decimal(30)) => vOut.score = Num(0)
    /\ NumLess(Num(1), vAcc.score) => vOut.score = Num(1)

\* a verification whose factors add up to more than 1 and that returned 1
C15_Witness ==
  /\ vpc = "done"
  /\ NumLess(Num(1), vAcc.score)
  /\ vOut.score = Num(1)

\* C16: when fewer than 70% of the pieces of the query name occur in the
\* candidate text, the verifier returns score 0 with the single reason
\* "Insufficient name match" and no bonus has been added
C16_NameGateHard ==
  (vpc = "done" /\ 10 * NamePartsFound < 7 * Len(NameParts)) =>
    /\ vOut.score = Num(0)
    /\ vOut.factors = <<[factor |-> "Insufficient name match - likely different person",
                         detail |-> <<>>]>>
    /\ vAcc.score = Num(0)
    /\ vAcc.factors = <<>>

\* a rejected candidate whose text names the institution and the specialty
\* of the query and carries a credential
C16_Witness ==
  /\ vpc = "done"
  /\ 10 * NamePartsFound < 7 * Len(NameParts)
  /\ NamePartsFound > 0
  /\ Truthy(vQuery.institution)
  /\ includes(ResultText, toLowerCase(vQuery.institution))
  /\ Truthy(vQuery.specialty)
  /\ includes(ResultText, toLowerCase(vQuery.specialty))
  /\ includes(ResultText, <<"m", "d">>)
  /\ vOut.score = Num(0)

\* C17: a candidate text that contains every piece of the query name passes
\* the name gate with the complete-match bonus, whatever the length of the
\* pieces
C17_FullNameMatch ==
  (vpc = "done" /\ NamePartsFound = Len(NameParts)) =>
    /\ vAcc.gate = "complete"
    /\ vAcc.factors # <<>>
    /\ vAcc.factors[1].factor = "Complete name match"
    /\ NameMatchScore > PartialNameScore

\* C18: with an institution given of which no word occurs in the candidate
\* text, and a name that passes the name gate, the accumulated score is
\* strictly lower than for the same call without the institution, and the
\* returned factors record the mismatch
C18_HintAbsentLowers ==
  (vpc = "compared" /\ HintAbsent /\ vAcc.gate # "insufficient") =>
    /\ NumLess(vAcc.score, vBase.score)
    /\ \E i \in 1..Len(vOut.factors) : IsMismatchFactor(vOut.factors[i])

\* C19: the returned factor list is never empty and holds every factor that
\* added to or subtracted from the score
C19_FactorsCarried ==
  vpc = "done" =>
    /\ vOut.factors # <<>>
    /\ \A i \in 1..Len(vAcc.factors) :
         \E j \in 1..Len(vOut.factors) : vOut.factors[j] = vAcc.factors[i]

(***************************************************************************)
(* Aggregation of the extractions of one run                               *)
(***************************************************************************)
NotFound == <<"N", "o", "t", " ", "f", "o", "u", "n", "d">>

NotSpecified == <<"N", "o", "t", " ", "s", "p", "e", "c", "i", "f", "i", "e", "d">>

InformationNotFound == <<"I", "n", "f", "o", "r", "m", "a", "t", "i", "o", "n", " ", "n", "o", "t", " ", "f", "o", "u", "n", "d">>

LocationNotFound == <<"L", "o", "c", "a", "t", "i", "o", "n", " ", "n", "o", "t", " ", "f", "o", "u", "n", "d">>

WorkplaceNotFound == <<"W", "o", "r", "k", "p", "l", "a", "c", "e", " ", "n", "o", "t", " ", "f", "o", "u", "n", "d">>

\* Array.prototype.sort with a comparator b.key - a.key, keys[i] being the key
\* of seq[i]: descending by key, and stable, so elements of equal key keep
\* their order of arrival
StableSortDesc(seq, keys) ==
  LET rank(i) == Cardinality({j \in 1..Len(seq) : keys[j] > keys[i]})
                 + Cardinality({j \in 1..(i - 1) : keys[j] = keys[i]}) + 1
  IN [k \in 1..Len(seq) |-> seq[CHOOSE i \in 1..Len(seq) : rank(i) = k]]

ConfidenceOf(e) == e.confidence

SortByConfidence(extractions) ==
  StableSortDesc(extractions, [i \in 1..Len(extractions) |-> ConfidenceOf(extractions[i])])

IsSentinel(v) == v = NotFound \/ v = NotSpecified

EmptyDoctorInfo ==
  [name |-> NotFound, specialty |-> NotSpecified, workplace |-> NotFound,
   location |-> NotFound, confidence_score |-> 0, extractions |-> <<>>]

\* medical-core.ts
aggregateDoctorInfo(extractions) ==
  IF Len(extractions) = 0 THEN EmptyDoctorInfo
  ELSE
    LET sorted == SortByConfidence(extractions)
        bestExtraction == sorted[1]
        withWorkplace == {i \in 1..Len(sorted) : ~IsSentinel(sorted[i].workplace)}
        withLocation == {i \in 1..Len(sorted) : ~IsSentinel(sorted[i].location)}
        first(idx) == CHOOSE i \in idx : \A j \in idx : i <= j
    IN [name |-> bestExtraction.doctor_name,
        specialty |-> bestExtraction.specialty,
        workplace |-> IF IsSentinel(bestExtraction.workplace) /\ withWorkplace # {}
                        THEN sorted[first(withWorkplace)].workplace
                        ELSE bestExtraction.workplace,
        location |-> IF IsSentinel(bestExtraction.location) /\ withLocation # {}
                       THEN sorted[first(withLocation)].location
                       ELSE bestExtraction.location,
        confidence_score |-> bestExtraction.confidence,
        extractions |-> sorted]

\* medical-research.ts: findMostReliableValue(extractions, field)
sourceTypeScore(type) ==
  CASE type = "medical_directory" -> 3
    [] type = "hospital_website" -> 2
    [] type = "academic_profile" -> 1
    [] OTHER -> 0

ReliabilityOf(e) == sourceTypeScore(e.source_type) * 100 + e.confidence

findMostReliableValue(extractions, field) ==
  LET hasField(e) == e[field] # <<>>
      values == LET kept == filterBy(extractions, {x \in Range(extractions) : hasField(x)})
                IN StableSortDesc(kept, [i \in 1..Len(kept) |-> ReliabilityOf(kept[i])])
  IN IF Len(values) > 0 THEN values[1][field] ELSE UNDEFINED

\* a || b for strings
OrElse(a, b) == IF Truthy(a) THEN a ELSE b

\* [...new Set(seq)]: first occurrences, in order
Unique(seq) ==
  LET firstOcc(i) == \A j \in 1..(i - 1) : seq[j] # seq[i]
      idx == {i \in 1..Len(seq) : firstOcc(i)}
  IN [k \in 1..Cardinality(idx) |->
        seq[CHOOSE i \in idx : Cardinality({j \in idx : j <= i}) = k]]

\* extractions.reduce((sum, e) => sum + e.confidence, 0), the confidences
\* being added to sum from the first to the last
RECURSIVE SumConfidence(_, _)
SumConfidence(extractions, sum) ==
  IF extractions = <<>> THEN sum
  ELSE SumConfidence(Tail(extractions),
                     NumAdd(sum, Decimal(Head(extractions).confidence)))

\* medical-research.ts, lines 304-318: avgConfidence is the sum over the
\* length, confidence_score is Math.min(1, avgConfidence + sourceTypeBonus)
\* and Math.round(confidence_score * 100) / 100 is returned, here as its
\* number of hundredths
RoundedAverage(extractions, sourceTypeBonus) ==
  MathRound(NumTimes(MathMin(Num(1),
                             NumAdd(NumOver(SumConfidence(extractions, Num(0)),
                                            Len(extractions)),
                                    sourceTypeBonus)), 100))

SourceTypeBonus == 10

\* medical-research.ts
aggregateMedicalInfo(extractions, originalQuery) ==
  IF Len(extractions) = 0
    THEN [name |-> originalQuery.name,
          specialty |-> originalQuery.specialty,
          location |-> InformationNotFound,
          workplace |-> InformationNotFound,
          additional_workplaces |-> UNDEFINED,
          confidence_score |-> 0]
  ELSE
    LET sorted == SortByConfidence(extractions)
        workplace == OrElse(findMostReliableValue(sorted, "workplace"), WorkplaceNotFound)
        isOther(w) == w # <<>> /\ w # workplace
        workplaces == [i \in 1..Len(sorted) |-> sorted[i].workplace]
        allWorkplaces == filterBy(workplaces, {w \in Range(workplaces) : isOther(w)})
        additional_workplaces == Unique(allWorkplaces)
        sourceTypeBonus ==
          IF \E i \in 1..Len(sorted) :
               sorted[i].source_type \in {"medical_directory", "hospital_website"}
            THEN Decimal(SourceTypeBonus) ELSE Num(0)
    IN [name |-> OrElse(findMostReliableValue(sorted, "doctor_name"), originalQuery.name),
        specialty |-> OrElse(findMostReliableValue(sorted, "specialty"), originalQuery.specialty),
        location |-> OrElse(findMostReliableValue(sorted, "location"), LocationNotFound),
        workplace |-> workplace,
        additional_workplaces |-> IF Len(additional_workplaces) > 0
                                    THEN additional_workplaces ELSE UNDEFINED,
        confidence_score |-> RoundedAverage(sorted, sourceTypeBonus)]

\* s.split(/\s+/): the pieces between runs of whitespace
splitWs(s) ==
  LET p == split([i \in 1..Len(s) |-> IF IsSpace(s[i]) THEN " " ELSE s[i]])
      idx == {i \in 1..Len(p) : p[i] # <<>> \/ i = 1 \/ i = Len(p)}
  IN [k \in 1..Cardinality(idx) |->
        p[CHOOSE i \in idx : Cardinality({j \in idx : j <= i}) = k]]

\* medical-research-fixed.ts: is the extraction about the queried doctor
SamePerson(extraction, doctorQuery) ==
  LET nameWords == splitWs(toLowerCase(extraction.doctor_name))
      targetWords == splitWs(toLowerCase(doctorQuery.name))
      specialtyMatch ==
        \/ includes(toLowerCase(extraction.specialty), toLowerCase(doctorQuery.specialty))
        \/ includes(toLowerCase(doctorQuery.specialty), toLowerCase(extraction.specialty))
      overlaps(word) == \E t \in 1..Len(targetWords) :
                          includes(targetWords[t], word) \/ includes(word, targetWords[t])
      nameOverlap == Cardinality({i \in 1..Len(nameWords) : overlaps(nameWords[i])})
  IN specialtyMatch /\ nameOverlap >= 2

GroupKey(extraction) == extraction.doctor_name \o <<"_">> \o extraction.specialty

\* medical-research-fixed.ts: the record built from the selected group
FixedFromGroup(bestGroup, doctorQuery) ==
  LET \* reduce keeps the earlier element unless a later one is strictly better
      bestIndex == CHOOSE i \in 1..Len(bestGroup) :
                     /\ \A j \in 1..(i - 1) : bestGroup[j].confidence < bestGroup[i].confidence
                     /\ \A j \in (i + 1)..Len(bestGroup) :
                          bestGroup[j].confidence <= bestGroup[i].confidence
      bestExtraction == bestGroup[bestIndex]
      allW == [i \in 1..Len(bestGroup) |-> bestGroup[i].workplace]
      workplaces == Unique(filterBy(allW, {w \in Range(allW) : Truthy(w) /\ ~IsSentinel(w)}))
      allL == [i \in 1..Len(bestGroup) |-> bestGroup[i].location]
      locations == Unique(filterBy(allL, {l \in Range(allL) : Truthy(l) /\ ~IsSentinel(l)}))
  IN [name |-> OrElse(bestExtraction.doctor_name, doctorQuery.name),
      specialty |-> OrElse(bestExtraction.specialty, doctorQuery.specialty),
      location |-> IF Len(locations) > 0 THEN locations[1] ELSE InformationNotFound,
      workplace |-> IF Len(workplaces) > 0 THEN workplaces[1] ELSE InformationNotFound,
      additional_workplaces |-> IF Len(workplaces) > 1
                                  THEN SubSeq(workplaces, 2, Len(workplaces))
                                  ELSE UNDEFINED,
      \* avgConfidence: the sum over the length, as the division left it
      confidence_score |-> NumOver(SumConfidence(bestGroup, Num(0)), Len(bestGroup))]

\* medical-research-fixed.ts: the group with the most sources, the earliest
\* inserted among the largest
BestGroup(kept) ==
  LET keyOf == [i \in 1..Len(kept) |-> GroupKey(kept[i])]
      size == [i \in 1..Len(kept) |-> Cardinality({j \in 1..Len(kept) : keyOf[j] = keyOf[i]})]
      first == CHOOSE i \in 1..Len(kept) :
                 /\ \A j \in 1..(i - 1) : size[j] < size[i]
                 /\ \A j \in (i + 1)..Len(kept) : size[j] <= size[i]
  IN filterBy(kept, {e \in Range(kept) : GroupKey(e) = keyOf[first]})

FixedNotFound(doctorQuery) ==
  [name |-> doctorQuery.name,
   specialty |-> doctorQuery.specialty,
   location |-> InformationNotFound,
   workplace |-> InformationNotFound,
   additional_workplaces |-> UNDEFINED,
   confidence_score |-> Num(0)]

\* medical-research-fixed.ts
aggregateMedicalInfoFixed(extractions, doctorQuery) ==
  LET matching == {e \in Range(extractions) : SamePerson(e, doctorQuery)}
  IN IF matching = {} THEN FixedNotFound(doctorQuery)
     ELSE CHOOSE r \in {FixedFromGroup(g, doctorQuery) :
                          g \in {BestGroup(kept) : kept \in {filterBy(extractions, matching)}}} :
            TRUE

(***************************************************************************)
(* One aggregation run: the same extractions are aggregated in the order   *)
(* they arrived and in a second order                                      *)
(***************************************************************************)
MaxCandidates == 3

CandidatePool ==
  {[doctor_name |-> <<"J", "a", "n", "e", " ", "D", "o", "e">>,
    specialty |-> <<"C", "a", "r", "d", "i", "o", "l", "o", "g", "y">>,
    workplace |-> <<"S", "p", "r", "i", "n", "g", "f", "i", "e", "l", "d", " ", "G", "e", "n", "e", "r", "a", "l">>,
    location |-> <<"S", "p", "r", "i", "n", "g", "f", "i", "e", "l", "d">>,
    confidence |-> 96, source_type |-> "hospital_website"],
   [doctor_name |-> <<"J", "a", "n", "e", " ", "D", "o", "e">>,
    specialty |-> <<"C", "a", "r", "d", "i", "o", "l", "o", "g", "y">>,
    workplace |-> <<"M", "e", "r", "c", "y">>,
    location |-> NotFound,
    confidence |-> 96, source_type |-> "news_article"],
   [doctor_name |-> <<"J", "a", "n", "e", " ", "D", "o", "e">>,
    specialty |-> <<"C", "a", "r", "d", "i", "o", "l", "o", "g", "y">>,
    workplace |-> NotFound,
    location |-> <<"S", "h", "e", "l", "b", "y", "v", "i", "l", "l", "e">>,
    confidence |-> 80, source_type |-> "medical_directory"],
   [doctor_name |-> <<"D", "r", ".", " ", "J", "a", "n", "e", " ", "D", "o", "e">>,
    specialty |-> NotSpecified,
    workplace |-> <<"M", "e", "r", "c", "y">>,
    location |-> <<"S", "p", "r", "i", "n", "g", "f", "i", "e", "l", "d">>,
    confidence |-> 40, source_type |-> "news_article"],
   [doctor_name |-> <<"J", "a", "n", "e", " ", "D", "o", "e">>,
    specialty |-> <<"C", "a", "r", "d", "i", "o", "l", "o", "g", "y">>,
    workplace |-> <<"S", "p", "r", "i", "n", "g", "f", "i", "e", "l", "d", " ", "G", "e", "n", "e", "r", "a", "l">>,
    location |-> <<"S", "p", "r", "i", "n", "g", "f", "i", "e", "l", "d">>,
    confidence |-> 40, source_type |-> "hospital_website"]}

AggQueries ==
  {[name |-> <<"J", "a", "n", "e", " ", "D", "o", "e">>,
    specialty |-> <<"C", "a", "r", "d", "i", "o", "l", "o", "g", "y">>,
    institution_hint |-> <<"S", "p", "r", "i", "n", "g", "f", "i", "e", "l", "d", " ", "G", "e", "n", "e", "r", "a", "l">>]}

SeqsUpTo(S, n) == UNION {[1..k -> S] : k \in 0..n}

Reorderings(seq) ==
  {[i \in 1..Len(seq) |-> seq[f[i]]] :
     f \in {g \in [1..Len(seq) -> 1..Len(seq)] :
              \A i, j \in 1..Len(seq) : g[i] = g[j] => i = j}}

NotRun == [done |-> FALSE]

AggInit ==
  /\ apc = "run"
  /\ aQuery \in AggQueries
  /\ aInput \in SeqsUpTo(CandidatePool, MaxCandidates)
  /\ aPerm \in Reorderings(aInput)
  /\ aOutCore = NotRun
  /\ aOutResearch = NotRun
  /\ aOutFixed = NotRun

\* medical-core.ts researchDoctor: aggregateDoctorInfo(extractions)
AggregateCore ==
  /\ apc = "run"
  /\ ~aOutCore.done
  /\ aOutCore' = [done |-> TRUE,
                  orig |-> aggregateDoctorInfo(aInput),
                  perm |-> aggregateDoctorInfo(aPerm)]
  /\ UNCHANGED <<apc, aQuery, aInput, aPerm, aOutResearch, aOutFixed, notAggVars>>

\* medical-research.ts researchDoctor: aggregateMedicalInfo(validExtractions, validatedQuery)
AggregateResearch ==
  /\ apc = "run"
  /\ ~aOutResearch.done
  /\ aOutResearch' = [done |-> TRUE,
                      orig |-> aggregateMedicalInfo(aInput, aQuery),
                      perm |-> aggregateMedicalInfo(aPerm, aQuery)]
  /\ UNCHANGED <<apc, aQuery, aInput, aPerm, aOutCore, aOutFixed, notAggVars>>

\* medical-research-fixed.ts researchDoctor: aggregateMedicalInfo(validExtractions, validatedQuery)
AggregateFixed ==
  /\ apc = "run"
  /\ ~aOutFixed.done
  /\ aOutFixed' = [done |-> TRUE,
                   orig |-> aggregateMedicalInfoFixed(aInput, aQuery),
                   perm |-> aggregateMedicalInfoFixed(aPerm, aQuery)]
  /\ UNCHANGED <<apc, aQuery, aInput, aPerm, aOutCore, aOutResearch, notAggVars>>

AggNext ==
  \/ AggregateCore
  \/ AggregateResearch
  \/ AggregateFixed

InitAgg == AggInit /\ NpiIdle /\ VerIdle /\ RunIdle /\ ScrapeIdle /\ FinderIdle /\ XIdle

SpecAgg == InitAgg /\ [][AggNext]_vars

\* the values that stand for "nothing found"
Sentinels == {NotFound, NotSpecified, InformationNotFound, LocationNotFound, WorkplaceNotFound}

AllSentinel(r) ==
  /\ r.confidence_score = 0
  /\ r.name \in Sentinels
  /\ r.specialty \in Sentinels
  /\ r.workplace \in Sentinels
  /\ r.location \in Sentinels

\* C1: with no surviving candidate the record has confidence 0 and every
\* field (name, specialty, workplace, location) is a not-found sentinel
C1_EmptyGivesSentinels ==
  aInput = <<>> =>
    /\ aOutCore.done => AllSentinel(aOutCore.orig)
    /\ aOutResearch.done => AllSentinel(aOutResearch.orig)

Primary(r) == <<r.name, r.specialty, r.workplace, r.location, r.confidence_score>>

\* C2: aggregating a permutation of the candidates gives the same primary
\* value per field and the same confidence
C2_PermutationInvariant ==
  /\ aOutCore.done => Primary(aOutCore.orig) = Primary(aOutCore.perm)
  /\ aOutResearch.done => Primary(aOutResearch.orig) = Primary(aOutResearch.perm)
  /\ aOutFixed.done => Primary(aOutFixed.orig) = Primary(aOutFixed.perm)

\* Scenario A: exactly one candidate, from a hospital or directory source,
\* carrying the queried name and the hinted institution
ScenarioA ==
  /\ Len(aInput) = 1
  /\ aInput[1].doctor_name = aQuery.name
  /\ aInput[1].workplace = aQuery.institution_hint
  /\ aInput[1].source_type \in {"medical_directory", "hospital_website"}

\* C6: in Scenario A the aggregated record has confidence >= 0.9 and the
\* hinted institution as primary institution
C6_ScenarioA ==
  ScenarioA =>
    /\ aOutCore.done =>
         (aOutCore.orig.confidence_score >= 90
          /\ aOutCore.orig.workplace = aQuery.institution_hint)
    /\ aOutResearch.done =>
         (aOutResearch.orig.confidence_score >= 90
          /\ aOutResearch.orig.workplace = aQuery.institution_hint)

\* the additional_workplaces of a record as a list, empty when undefined
Alternates(r) ==
  IF ToString(r.additional_workplaces) = ToString(UNDEFINED) THEN <<>>
  ELSE r.additional_workplaces

Known(v) == v # <<>> /\ v \notin Sentinels

\* the values the candidates cands carry for a field
ValuesOf(cands, field) == {cands[i][field] : i \in 1..Len(cands)}

\* each field of the record r is known when some candidate knows it
PrimaryKnown(r, cands) ==
  /\ (\E v \in ValuesOf(cands, "doctor_name") : Known(v)) => Known(r.name)
  /\ (\E v \in ValuesOf(cands, "specialty") : Known(v)) => Known(r.specialty)
  /\ (\E v \in ValuesOf(cands, "workplace") : Known(v)) => Known(r.workplace)
  /\ (\E v \in ValuesOf(cands, "location") : Known(v)) => Known(r.location)

\* the alternates of r are the other known workplaces, each once
AlternatesExact(r, cands) ==
  /\ \A i, j \in 1..Len(Alternates(r)) : Alternates(r)[i] = Alternates(r)[j] => i = j
  /\ Range(Alternates(r)) = {v \in ValuesOf(cands, "workplace") : Known(v)} \ {r.workplace}

\* medical-research-fixed.ts: the candidates of the group the record is built from
FixedSurvivors ==
  IF \E i \in 1..Len(aInput) : SamePerson(aInput[i], aQuery)
    THEN BestGroup(filterBy(aInput, {e \in Range(aInput) : SamePerson(e, aQuery)}))
    ELSE <<>>

C21_Core == aOutCore.done => PrimaryKnown(aOutCore.orig, aInput)

C21_Research ==
  aOutResearch.done =>
    (PrimaryKnown(aOutResearch.orig, aInput) /\ AlternatesExact(aOutResearch.orig, aInput))

C21_Fixed ==
  aOutFixed.done =>
    (PrimaryKnown(aOutFixed.orig, FixedSurvivors) /\ AlternatesExact(aOutFixed.orig, FixedSurvivors))

\* C21: per field, the primary value is a known value whenever a surviving
\* candidate has one, and the alternates are the other distinct known values,
\* without duplicates, sentinels or the primary itself
C21_PrimaryAndAlternates == C21_Core /\ C21_Research /\ C21_Fixed

\* medical directory and hospital site: the source kinds that outrank a news article
Authoritative(e) == e.source_type \in {"medical_directory", "hospital_website"}

\* of two candidates of equal confidence, one authoritative and one a news
\* article, the authoritative one supplies every primary value both know
OutranksNews(r, cands) ==
  \A i, j \in 1..Len(cands) :
    (/\ Len(cands) = 2
     /\ Authoritative(cands[i])
     /\ cands[j].source_type = "news_article"
     /\ cands[i].confidence = cands[j].confidence) =>
      \A f \in {<<"doctor_name", "name">>, <<"specialty", "specialty">>,
                <<"workplace", "workplace">>, <<"location", "location">>} :
        (Known(cands[i][f[1]]) /\ Known(cands[j][f[1]])) => r[f[2]] = cands[i][f[1]]

C25_Core == aOutCore.done => OutranksNews(aOutCore.orig, aInput)

C25_Research == aOutResearch.done => OutranksNews(aOutResearch.orig, aInput)

\* C25: between two surviving candidates of equal confidence the one from a
\* medical directory or hospital site supplies the primary value, not the one
\* from a news article, whatever their order in the input
C25_AuthoritativeOutranks == C25_Core /\ C25_Research

(***************************************************************************)
(* The research run of medical-core.ts: researchDoctor                     *)
(***************************************************************************)
\* null returned by enhancedWebScrape (a text is modelled by its length)
NullContent == 0 - 1

\* extractWorkplaceFromUrl: const institutionPatterns
institutionPatterns ==
  <<[pattern |-> <<"m", "s", "k", "c", "c", ".", "o", "r", "g">>,
     name |-> <<"M", "e", "m", "o", "r", "i", "a", "l", " ", "S", "l", "o", "a", "n", " ", "K", "e", "t", "t", "e", "r", "i", "n", "g", " ", "C", "a", "n", "c", "e", "r", " ", "C", "e", "n", "t", "e", "r">>],
    [pattern |-> <<"m", "a", "y", "o", "c", "l", "i", "n", "i", "c", ".", "o", "r", "g">>,
     name |-> <<"M", "a", "y", "o", " ", "C", "l", "i", "n", "i", "c">>],
    [pattern |-> <<"c", "l", "e", "v", "e", "l", "a", "n", "d", "c", "l", "i", "n", "i", "c", ".", "o", "r", "g">>,
     name |-> <<"C", "l", "e", "v", "e", "l", "a", "n", "d", " ", "C", "l", "i", "n", "i", "c">>],
    [pattern |-> <<"j", "o", "h", "n", "s", "h", "o", "p", "k", "i", "n", "s", ".", "e", "d", "u">>,
     name |-> <<"J", "o", "h", "n", "s", " ", "H", "o", "p", "k", "i", "n", "s">>],
    [pattern |-> <<"c", "a", "n", "c", "e", "r", ".", "o", "s", "u", ".", "e", "d", "u">>,
     name |-> <<"O", "h", "i", "o", " ", "S", "t", "a", "t", "e", " ", "U", "n", "i", "v", "e", "r", "s", "i", "t", "y", " ", "C", "o", "m", "p", "r", "e", "h", "e", "n", "s", "i", "v", "e", " ", "C", "a", "n", "c", "e", "r", " ", "C", "e", "n", "t", "e", "r">>],
    [pattern |-> <<"o", "s", "u", ".", "e", "d", "u">>,
     name |-> <<"O", "h", "i", "o", " ", "S", "t", "a", "t", "e", " ", "U", "n", "i", "v", "e", "r", "s", "i", "t", "y">>],
    [pattern |-> <<"g", "e", "i", "s", "i", "n", "g", "e", "r", ".", "e", "d", "u">>,
     name |-> <<"G", "e", "i", "s", "i", "n", "g", "e", "r", " ", "H", "e", "a", "l", "t", "h", " ", "S", "y", "s", "t", "e", "m">>],
    [pattern |-> <<"j", "e", "f", "f", "e", "r", "s", "o", "n", "h", "e", "a", "l", "t", "h", ".", "o", "r", "g">>,
     name |-> <<"J", "e", "f", "f", "e", "r", "s", "o", "n", " ", "H", "e", "a", "l", "t", "h">>],
    [pattern |-> <<"u", "p", "m", "c", ".", "e", "d", "u">>,
     name |-> <<"U", "n", "i", "v", "e", "r", "s", "i", "t", "y", " ", "o", "f", " ", "P", "i", "t", "t", "s", "b", "u", "r", "g", "h", " ", "M", "e", "d", "i", "c", "a", "l", " ", "C", "e", "n", "t", "e", "r">>],
    [pattern |-> <<"p", "e", "n", "n", "m", "e", "d", "i", "c", "i", "n", "e", ".", "o", "r", "g">>,
     name |-> <<"P", "e", "n", "n", " ", "M", "e", "d", "i", "c", "i", "n", "e">>],
    [pattern |-> <<"m", "o", "u", "n", "t", "s", "i", "n", "a", "i", ".", "o", "r", "g">>,
     name |-> <<"M", "o", "u", "n", "t", " ", "S", "i", "n", "a", "i", " ", "H", "e", "a", "l", "t", "h", " ", "S", "y", "s", "t", "e", "m">>],
    [pattern |-> <<"n", "y", "u", "l", "a", "n", "g", "o", "n", "e", ".", "o", "r", "g">>,
     name |-> <<"N", "Y", "U", " ", "L", "a", "n", "g", "o", "n", "e", " ", "H", "e", "a", "l", "t", "h">>],
    [pattern |-> <<"b", "r", "i", "g", "h", "a", "m", "a", "n", "d", "w", "o", "m", "e", "n", "s", ".", "o", "r", "g">>,
     name |-> <<"B", "r", "i", "g", "h", "a", "m", " ", "a", "n", "d", " ", "W", "o", "m", "e", "n", "'", "s", " ", "H", "o", "s", "p", "i", "t", "a", "l">>],
    [pattern |-> <<"m", "a", "s", "s", "g", "e", "n", "e", "r", "a", "l", ".", "o", "r", "g">>,
     name |-> <<"M", "a", "s", "s", "a", "c", "h", "u", "s", "e", "t", "t", "s", " ", "G", "e", "n", "e", "r", "a", "l", " ", "H", "o", "s", "p", "i", "t", "a", "l">>],
    [pattern |-> <<"s", "t", "a", "n", "f", "o", "r", "d", "h", "e", "a", "l", "t", "h", "c", "a", "r", "e", ".", "o", "r", "g">>,
     name |-> <<"S", "t", "a", "n", "f", "o", "r", "d", " ", "H", "e", "a", "l", "t", "h", "c", "a", "r", "e">>],
    [pattern |-> <<"u", "c", "l", "a", "h", "e", "a", "l", "t", "h", ".", "o", "r", "g">>,
     name |-> <<"U", "C", "L", "A", " ", "H", "e", "a", "l", "t", "h">>],
    [pattern |-> <<"c", "e", "d", "a", "r", "s", "-", "s", "i", "n", "a", "i", ".", "o", "r", "g">>,
     name |-> <<"C", "e", "d", "a", "r", "s", "-", "S", "i", "n", "a", "i", " ", "M", "e", "d", "i", "c", "a", "l", " ", "C", "e", "n", "t", "e", "r">>],
    [pattern |-> <<"t", "u", "f", "t", "s", "m", "e", "d", "i", "c", "i", "n", "e", ".", "o", "r", "g">>,
     name |-> <<"T", "u", "f", "t", "s", " ", "M", "e", "d", "i", "c", "a", "l", " ", "C", "e", "n", "t", "e", "r">>],
    [pattern |-> <<"t", "u", "f", "t", "s", "m", "e", "d", "i", "c", "a", "l", "c", "e", "n", "t", "e", "r", ".", "o", "r", "g">>,
     name |-> <<"T", "u", "f", "t", "s", " ", "M", "e", "d", "i", "c", "a", "l", " ", "C", "e", "n", "t", "e", "r">>],
    [pattern |-> <<"t", "u", "f", "t", "s", ".", "e", "d", "u">>,
     name |-> <<"T", "u", "f", "t", "s", " ", "U", "n", "i", "v", "e", "r", "s", "i", "t", "y">>],
    [pattern |-> <<"m", "d", "a", "n", "d", "e", "r", "s", "o", "n", ".", "o", "r", "g">>,
     name |-> <<"T", "h", "e", " ", "U", "n", "i", "v", "e", "r", "s", "i", "t", "y", " ", "o", "f", " ", "T", "e", "x", "a", "s", " ", "M", "D", " ", "A", "n", "d", "e", "r", "s", "o", "n", " ", "C", "a", "n", "c", "e", "r", " ", "C", "e", "n", "t", "e", "r">>],
    [pattern |-> <<"c", "i", "t", "y", "o", "f", "h", "o", "p", "e", ".", "o", "r", "g">>,
     name |-> <<"C", "i", "t", "y", " ", "o", "f", " ", "H", "o", "p", "e", " ", "C", "o", "m", "p", "r", "e", "h", "e", "n", "s", "i", "v", "e", " ", "C", "a", "n", "c", "e", "r", " ", "C", "e", "n", "t", "e", "r">>],
    [pattern |-> <<"d", "a", "n", "a", "-", "f", "a", "r", "b", "e", "r", ".", "o", "r", "g">>,
     name |-> <<"D", "a", "n", "a", "-", "F", "a", "r", "b", "e", "r", " ", "C", "a", "n", "c", "e", "r", " ", "I", "n", "s", "t", "i", "t", "u", "t", "e">>],
    [pattern |-> <<"c", "a", "n", "c", "e", "r", ".", "g", "o", "v">>,
     name |-> <<"N", "a", "t", "i", "o", "n", "a", "l", " ", "C", "a", "n", "c", "e", "r", " ", "I", "n", "s", "t", "i", "t", "u", "t", "e">>],
    [pattern |-> <<"r", "a", "d", "i", "a", "t", "i", "o", "n", "o", "n", "c", "o", "l", "o", "g", "y", "a", "s", "s", "o", "c", "i", "a", "t", "e", "s", ".", "c", "o", "m">>,
     name |-> <<"R", "a", "d", "i", "a", "t", "i", "o", "n", " ", "O", "n", "c", "o", "l", "o", "g", "y", " ", "A", "s", "s", "o", "c", "i", "a", "t", "e", "s">>],
    [pattern |-> <<"o", "k", "l", "a", "h", "o", "m", "a", "p", "r", "o", "t", "o", "n", ".", "c", "o", "m">>,
     name |-> <<"O", "k", "l", "a", "h", "o", "m", "a", " ", "P", "r", "o", "t", "o", "n", " ", "C", "e", "n", "t", "e", "r">>],
    [pattern |-> <<"p", "r", "o", "t", "o", "n", "r", "a", "d", "i", "a", "t", "i", "o", "n", "o", "n", "c", "o", "l", "o", "g", "y", ".", "c", "o", "m">>,
     name |-> <<"O", "k", "l", "a", "h", "o", "m", "a", " ", "P", "r", "o", "t", "o", "n", " ", "C", "e", "n", "t", "e", "r">>]>>

\* extractLocationFromUrl: const locationPatterns
locationPatterns ==
  <<[pattern |-> <<"m", "s", "k", "c", "c", ".", "o", "r", "g">>,
     location |-> <<"N", "e", "w", " ", "Y", "o", "r", "k", ",", " ", "N", "Y">>],
    [pattern |-> <<"m", "a", "y", "o", "c", "l", "i", "n", "i", "c", ".", "o", "r", "g">>,
     location |-> <<"R", "o", "c", "h", "e", "s", "t", "e", "r", ",", " ", "M", "N">>],
    [pattern |-> <<"c", "l", "e", "v", "e", "l", "a", "n", "d", "c", "l", "i", "n", "i", "c", ".", "o", "r", "g">>,
     location |-> <<"C", "l", "e", "v", "e", "l", "a", "n", "d", ",", " ", "O", "H">>],
    [pattern |-> <<"j", "o", "h", "n", "s", "h", "o", "p", "k", "i", "n", "s", ".", "e", "d", "u">>,
     location |-> <<"B", "a", "l", "t", "i", "m", "o", "r", "e", ",", " ", "M", "D">>],
    [pattern |-> <<"c", "a", "n", "c", "e", "r", ".", "o", "s", "u", ".", "e", "d", "u">>,
     location |-> <<"C", "o", "l", "u", "m", "b", "u", "s", ",", " ", "O", "H">>],
    [pattern |-> <<"o", "s", "u", ".", "e", "d", "u">>,
     location |-> <<"C", "o", "l", "u", "m", "b", "u", "s", ",", " ", "O", "H">>],
    [pattern |-> <<"g", "e", "i", "s", "i", "n", "g", "e", "r", ".", "e", "d", "u">>,
     location |-> <<"D", "a", "n", "v", "i", "l", "l", "e", ",", " ", "P", "A">>],
    [pattern |-> <<"j", "e", "f", "f", "e", "r", "s", "o", "n", "h", "e", "a", "l", "t", "h", ".", "o", "r", "g">>,
     location |-> <<"P", "h", "i", "l", "a", "d", "e", "l", "p", "h", "i", "a", ",", " ", "P", "A">>],
    [pattern |-> <<"u", "p", "m", "c", ".", "e", "d", "u">>,
     location |-> <<"P", "i", "t", "t", "s", "b", "u", "r", "g", "h", ",", " ", "P", "A">>],
    [pattern |-> <<"p", "e", "n", "n", "m", "e", "d", "i", "c", "i", "n", "e", ".", "o", "r", "g">>,
     location |-> <<"P", "h", "i", "l", "a", "d", "e", "l", "p", "h", "i", "a", ",", " ", "P", "A">>],
    [pattern |-> <<"m", "o", "u", "n", "t", "s", "i", "n", "a", "i", ".", "o", "r", "g">>,
     location |-> <<"N", "e", "w", " ", "Y", "o", "r", "k", ",", " ", "N", "Y">>],
    [pattern |-> <<"n", "y", "u", "l", "a", "n", "g", "o", "n", "e", ".", "o", "r", "g">>,
     location |-> <<"N", "e", "w", " ", "Y", "o", "r", "k", ",", " ", "N", "Y">>],
    [pattern |-> <<"b", "r", "i", "g", "h", "a", "m", "a", "n", "d", "w", "o", "m", "e", "n", "s", ".", "o", "r", "g">>,
     location |-> <<"B", "o", "s", "t", "o", "n", ",", " ", "M", "A">>],
    [pattern |-> <<"m", "a", "s", "s", "g", "e", "n", "e", "r", "a", "l", ".", "o", "r", "g">>,
     location |-> <<"B", "o", "s", "t", "o", "n", ",", " ", "M", "A">>],
    [pattern |-> <<"s", "t", "a", "n", "f", "o", "r", "d", "h", "e", "a", "l", "t", "h", "c", "a", "r", "e", ".", "o", "r", "g">>,
     location |-> <<"S", "t", "a", "n", "f", "o", "r", "d", ",", " ", "C", "A">>],
    [pattern |-> <<"u", "c", "l", "a", "h", "e", "a", "l", "t", "h", ".", "o", "r", "g">>,
     location |-> <<"L", "o", "s", " ", "A", "n", "g", "e", "l", "e", "s", ",", " ", "C", "A">>],
    [pattern |-> <<"c", "e", "d", "a", "r", "s", "-", "s", "i", "n", "a", "i", ".", "o", "r", "g">>,
     location |-> <<"L", "o", "s", " ", "A", "n", "g", "e", "l", "e", "s", ",", " ", "C", "A">>],
    [pattern |-> <<"t", "u", "f", "t", "s", "m", "e", "d", "i", "c", "i", "n", "e", ".", "o", "r", "g">>,
     location |-> <<"B", "o", "s", "t", "o", "n", ",", " ", "M", "A">>],
    [pattern |-> <<"t", "u", "f", "t", "s", "m", "e", "d", "i", "c", "a", "l", "c", "e", "n", "t", "e", "r", ".", "o", "r", "g">>,
     location |-> <<"B", "o", "s", "t", "o", "n", ",", " ", "M", "A">>],
    [pattern |-> <<"t", "u", "f", "t", "s", ".", "e", "d", "u">>,
     location |-> <<"B", "o", "s", "t", "o", "n", ",", " ", "M", "A">>],
    [pattern |-> <<"m", "d", "a", "n", "d", "e", "r", "s", "o", "n", ".", "o", "r", "g">>,
     location |-> <<"H", "o", "u", "s", "t", "o", "n", ",", " ", "T", "X">>],
    [pattern |-> <<"c", "i", "t", "y", "o", "f", "h", "o", "p", "e", ".", "o", "r", "g">>,
     location |-> <<"D", "u", "a", "r", "t", "e", ",", " ", "C", "A">>],
    [pattern |-> <<"d", "a", "n", "a", "-", "f", "a", "r", "b", "e", "r", ".", "o", "r", "g">>,
     location |-> <<"D", "a", "n", "a", "-", "F", "a", "r", "b", "e", "r", " ", "C", "a", "n", "c", "e", "r", " ", "I", "n", "s", "t", "i", "t", "u", "t", "e">>],
    [pattern |-> <<"c", "a", "n", "c", "e", "r", ".", "g", "o", "v">>,
     location |-> <<"B", "e", "t", "h", "e", "s", "d", "a", ",", " ", "M", "D">>],
    [pattern |-> <<"r", "a", "d", "i", "a", "t", "i", "o", "n", "o", "n", "c", "o", "l", "o", "g", "y", "a", "s", "s", "o", "c", "i", "a", "t", "e", "s", ".", "c", "o", "m">>,
     location |-> <<"B", "o", "s", "t", "o", "n", ",", " ", "M", "A">>],
    [pattern |-> <<"o", "k", "l", "a", "h", "o", "m", "a", "p", "r", "o", "t", "o", "n", ".", "c", "o", "m">>,
     location |-> <<"O", "k", "l", "a", "h", "o", "m", "a", " ", "C", "i", "t", "y", ",", " ", "O", "K">>],
    [pattern |-> <<"p", "r", "o", "t", "o", "n", "r", "a", "d", "i", "a", "t", "i", "o", "n", "o", "n", "c", "o", "l", "o", "g", "y", ".", "c", "o", "m">>,
     location |-> <<"O", "k", "l", "a", "h", "o", "m", "a", " ", "C", "i", "t", "y", ",", " ", "O", "K">>]>>

\* the first table entry whose pattern occurs in the lower-cased URL
FirstPattern(table, url) ==
  LET hits == UNION {{i \in 1..Len(table) : includes(low, table[i].pattern)} :
                     low \in {toLowerCase(url)}}
  IN IF hits = {} THEN 0 ELSE CHOOSE i \in hits : \A j \in hits : i <= j

extractWorkplaceFromUrl(url) ==
  CHOOSE name \in {IF i = 0 THEN UNDEFINED ELSE institutionPatterns[i].name :
                     i \in {FirstPattern(institutionPatterns, url)}} : TRUE

extractLocationFromUrl(url) ==
  CHOOSE location \in {IF i = 0 THEN UNDEFINED ELSE locationPatterns[i].location :
                         i \in {FirstPattern(locationPatterns, url)}} : TRUE

\* variant: without the try/catch a failed request rejects the call
googleSearch_m(resp) ==
  [threw |-> resp.kind = "throw",
   items |-> IF resp.kind = "ok" /\ resp.hasItems THEN resp.items ELSE <<>>]

\* googleSearch: the items of a successful response; a response that is not
\* ok and an error thrown by fetch or response.json() both give []
googleSearch(resp) ==
  [threw |-> FALSE,
   items |-> IF resp.kind = "ok" /\ resp.hasItems THEN resp.items ELSE <<>>]

\* userAgents.length
NumUserAgents == 3

ShortContent == 200

TooShortContent == 100

\* variant: a response that is not ok ends the call at once
ScrapeStep_m(url, attempt, resp) ==
  IF resp.kind = "throw" /\ attempt < NumUserAgents - 1
    THEN [next |-> "continue", content |-> NullContent]
  ELSE IF resp.kind \in {"throw", "notOk"}
    THEN [next |-> "return", content |-> NullContent]
  ELSE [next |-> "return", content |-> resp.len]

\* enhancedWebScrape: one pass of the loop body for the response to the
\* request sent with userAgents[attempt]
ScrapeStep(url, attempt, resp) ==
  LET last == attempt = NumUserAgents - 1
      known == Truthy(extractWorkplaceFromUrl(url)) /\ Truthy(extractLocationFromUrl(url))
  IN IF resp.kind \in {"throw", "notOk"}
       THEN IF last THEN [next |-> "return", content |-> NullContent]
                    ELSE [next |-> "continue", content |-> NullContent]
     ELSE IF resp.len < ShortContent /\ known /\ ~last
       THEN [next |-> "continue", content |-> NullContent]
     ELSE IF resp.len < ShortContent /\ resp.len < TooShortContent /\ ~last
       THEN [next |-> "continue", content |-> NullContent]
     ELSE [next |-> "return", content |-> resp.len]

\* enhancedWebScrape: the loop around ScrapeStep. Either the next request
\* goes out with userAgents[attempt + 1], or the call returns; it returns
\* null when the loop runs out of user agents
enhancedWebScrape(url, attempt, resp) ==
  LET step == ScrapeStep(url, attempt, resp)
  IN IF step.next = "return" THEN [next |-> "return", attempt |-> attempt, content |-> step.content]
     ELSE IF attempt + 1 < NumUserAgents
       THEN [next |-> "request", attempt |-> attempt + 1, content |-> NullContent]
     ELSE [next |-> "return", attempt |-> attempt, content |-> NullContent]

MinContent == 50

KnownInstitutionConfidence == 70

\* extractMedicalInfo: the name test on the extracted name
NameCheck(extractedRaw, queryName) ==
  LET parts == split(toLowerCase(queryName))
      targetFirstName == parts[1]
      targetLastName == parts[Len(parts)]
      targetFullName == toLowerCase(queryName)
      extractedName == toLowerCase(extractedRaw)
      hasFirstName == includes(extractedName, targetFirstName)
      hasLastName == includes(extractedName, targetLastName)
      hasFullName == \/ includes(extractedName, targetFullName)
                     \/ includes(targetFullName, extractedName)
      hasPartialMatch == /\ Len(targetFirstName) > 3
                         /\ includes(extractedName, SubSeq(targetFirstName, 1, 4))
  IN hasFirstName \/ hasLastName \/ hasFullName \/ hasPartialMatch

\* variant: the assignment of the URL-based extraction succeeds
UrlOnlyExtraction_m(url, doctorQuery) ==
  [doctor_name |-> doctorQuery.name,
   specialty |-> doctorQuery.specialty,
   workplace |-> extractWorkplaceFromUrl(url),
   location |-> extractLocationFromUrl(url),
   confidence |-> 60,
   source_type |-> "institutional_profile"]

\* extractMedicalInfo, no name extracted and a known institution URL:
\* "extraction = {...}" assigns to the const declared at "const extraction =
\* result.object", which throws a TypeError under tsx (package.json: start),
\* and the catch block returns null
UrlOnlyExtraction(url, doctorQuery) == NULL

IsBlankField(v) == v = NotFound \/ v = NotSpecified \/ v = <<>>

\* extractMedicalInfo after the content guard: what is returned for the
\* answer llm of generateObject
extractMedicalInfo(content, url, doctorQuery, llm) ==
  LET e == llm.object
      urlWorkplace == extractWorkplaceFromUrl(url)
      urlLocation == extractLocationFromUrl(url)
      workplace1 == IF IsBlankField(e.workplace) /\ Truthy(urlWorkplace)
                      THEN urlWorkplace ELSE e.workplace
      location1 == IF IsBlankField(e.location) /\ Truthy(urlLocation)
                     THEN urlLocation ELSE e.location
      boost == content < ShortContent /\ Truthy(urlWorkplace) /\ Truthy(urlLocation)
  IN IF llm.kind = "throw" THEN NULL
     ELSE IF Truthy(e.doctor_name) /\ e.doctor_name # NotFound
       THEN IF ~NameCheck(e.doctor_name, doctorQuery.name) THEN NULL
            ELSE IF boost
              THEN [doctor_name |-> OrElse(e.doctor_name, doctorQuery.name),
                    specialty |-> OrElse(e.specialty, doctorQuery.specialty),
                    workplace |-> urlWorkplace,
                    location |-> urlLocation,
                    confidence |-> Max(KnownInstitutionConfidence, e.confidence),
                    source_type |-> "institutional_profile"]
            ELSE [doctor_name |-> e.doctor_name,
                  specialty |-> e.specialty,
                  workplace |-> workplace1,
                  location |-> location1,
                  confidence |-> e.confidence,
                  source_type |-> e.source_type]
     ELSE IF Truthy(urlWorkplace) /\ Truthy(urlLocation)
       THEN UrlOnlyExtraction(url, doctorQuery)
     ELSE NULL

\* p-limit: a task is running from the moment it is started until it settles
IsRunning(task) == task.st \notin {"queued", "done"}

ActiveCount(tasks) == Cardinality({i \in 1..Len(tasks) : IsRunning(tasks[i])})

\* a started task has its first request in flight: the search request, or
\* the page request with userAgents[0]
Begin(task) ==
  IF task.kind = "search" THEN [task EXCEPT !.st = "active"]
  ELSE [task EXCEPT !.st = "fetch", !.attempt = 0]

\* variant: every queued task is started at once
StartQueued_m(tasks, limit) ==
  [i \in 1..Len(tasks) |-> IF tasks[i].st = "queued" THEN Begin(tasks[i]) ELSE tasks[i]]

\* p-limit: queued tasks are started, oldest first, while fewer than
\* `limit` are running
StartQueued(tasks, limit) ==
  LET queued == {i \in 1..Len(tasks) : tasks[i].st = "queued"}
      room == limit - ActiveCount(tasks)
      starts == {i \in queued : Cardinality({j \in queued : j < i}) < room}
  IN [i \in 1..Len(tasks) |-> IF i \in starts THEN Begin(tasks[i]) ELSE tasks[i]]

AllDone(tasks) == \A i \in 1..Len(tasks) : tasks[i].st = "done"

\* (await Promise.all(searchPromises)).flat()
RECURSIVE Flat(_)
Flat(tasks) ==
  IF tasks = <<>> THEN <<>> ELSE Head(tasks).items \o Flat(Tail(tasks))

\* sourcesUsed: the links of the search results that are truthy (lines
\* 567-571: if (result.link && !sourcesUsed.includes(result.link))), first
\* occurrences
SourcesOf(results) ==
  LET links == [i \in 1..Len(results) |-> results[i].link]
  IN Unique(filterBy(links, {l \in Range(links) : Truthy(l)}))

\* variant: one extraction task per distinct link
ExtractionTasks_m(results) ==
  [i \in 1..Len(SourcesOf(results)) |->
     [kind |-> "extract", st |-> "queued", url |-> SourcesOf(results)[i], attempt |-> 0,
      content |-> NullContent, llm |-> <<>>, out |-> NULL]]

\* searchResults.map(result => limit(...)): one extraction task per result
ExtractionTasks(results) ==
  [i \in 1..Len(results) |->
     [kind |-> "extract", st |-> "queued", url |-> results[i].link, attempt |-> 0,
      content |-> NullContent, llm |-> <<>>, out |-> NULL]]

\* compact(await Promise.all(extractionPromises))
Compact(tasks) ==
  LET idx == {i \in 1..Len(tasks) : tasks[i].out # NULL}
  IN [k \in 1..Cardinality(idx) |->
        tasks[CHOOSE i \in idx : Cardinality({j \in idx : j <= i}) = k].out]

\* { ...aggregatedInfo, sources: sourcesUsed }
RunRecord(extractions, sources) ==
  [info |-> aggregateDoctorInfo(extractions), sources |-> sources]

NoRecord == [none |-> TRUE]

\* the bounds of a run
MaxQueries == 2

MaxConcurrency == 2

U_KNOWN == <<"m", "a", "y", "o", "c", "l", "i", "n", "i", "c", ".", "o", "r", "g", "/", "j", "d">>

U_OTHER == <<"h", "e", "a", "l", "t", "h", ".", "e", "x", "a", "m", "p", "l", "e", "/", "j", "d">>

RunUrls == {U_KNOWN, U_OTHER}

RunQueries ==
  {[name |-> <<"J", "a", "n", "e", " ", "D", "o", "e">>,
    specialty |-> <<"C", "a", "r", "d", "i", "o", "l", "o", "g", "y">>]}

\* what the search provider may answer to one query
SearchResponses ==
  {[kind |-> "throw"], [kind |-> "notOk"], [kind |-> "ok", hasItems |-> FALSE]}
  \cup {[kind |-> "ok", hasItems |-> TRUE, items |-> <<[link |-> u]>>] : u \in RunUrls}

\* text lengths of a fetched page after tag removal
BodyLengths == {0, 30, 60, 150, 300}

\* what a site may answer to one request
ScrapeResponses ==
  {[kind |-> "throw"], [kind |-> "notOk"]} \cup {[kind |-> "ok", len |-> n] : n \in BodyLengths}

\* objects generateObject may return for MedicalExtractionSchema
LlmObjects ==
  {[doctor_name |-> <<"J", "a", "n", "e", " ", "D", "o", "e">>,
    specialty |-> <<"C", "a", "r", "d", "i", "o", "l", "o", "g", "y">>,
    workplace |-> <<"S", "p", "r", "i", "n", "g", "f", "i", "e", "l", "d", " ", "G", "e", "n", "e", "r", "a", "l">>,
    location |-> <<"S", "p", "r", "i", "n", "g", "f", "i", "e", "l", "d">>,
    confidence |-> 80, source_type |-> "hospital_website"],
   [doctor_name |-> <<"D", "r", ".", " ", "J", "a", "n", "e", " ", "D", "o", "e">>,
    specialty |-> NotSpecified,
    workplace |-> NotFound,
    location |-> NotFound,
    confidence |-> 40, source_type |-> "other"],
   [doctor_name |-> <<"B", "o", "b", " ", "R", "o", "s", "s">>,
    specialty |-> <<"C", "a", "r", "d", "i", "o", "l", "o", "g", "y">>,
    workplace |-> <<"M", "e", "r", "c", "y">>,
    location |-> NotFound,
    confidence |-> 80, source_type |-> "news_article"],
   [doctor_name |-> NotFound,
    specialty |-> NotSpecified,
    workplace |-> NotFound,
    location |-> NotFound,
    confidence |-> 10, source_type |-> "other"]}

LlmResponses == {[kind |-> "throw"]} \cup {[kind |-> "object", object |-> o] : o \in LlmObjects}

RunInit ==
  /\ rpc = "start"
  /\ rLimit \in 1..MaxConcurrency
  /\ rQuery \in RunQueries
  /\ rSearch = <<>>
  /\ rResults = <<>>
  /\ rSources = <<>>
  /\ rTasks = <<>>
  /\ rRecord = NoRecord

\* the extraction phase is over: aggregate and return
Settle(tasks, sources) ==
  IF AllDone(tasks) THEN RunRecord(Compact(tasks), sources) ELSE NoRecord

\* researchDoctor up to the first await of the search results: the queries
\* are generated and handed to the limiter
GenerateQueries ==
  /\ rpc = "start"
  /\ \E n \in 0..MaxQueries :
       /\ rSearch' = StartQueued([i \in 1..n |-> [kind |-> "search", st |-> "queued",
                                                  resp |-> "none", items |-> <<>>]],
                                 rLimit)
       /\ rpc' = IF n = 0 THEN "done" ELSE "search"
       /\ rRecord' = IF n = 0 THEN RunRecord(<<>>, <<>>) ELSE NoRecord
  /\ UNCHANGED <<rLimit, rQuery, rResults, rSources, rTasks, notRunVars>>

\* a search request is answered; when it was the last one the results are
\* flattened and the extraction tasks are handed to the limiter. A search
\* that rejected would reject Promise.all and with it researchDoctor
SearchRespond ==
  /\ rpc = "search"
  /\ \E i \in 1..Len(rSearch), resp \in SearchResponses :
       /\ rSearch[i].st = "active"
       /\ IF googleSearch(resp).threw
            THEN /\ rpc' = "aborted"
                 /\ UNCHANGED <<rSearch, rResults, rSources, rTasks, rRecord>>
            ELSE \E search \in {StartQueued([rSearch EXCEPT ![i] =
                                     [kind |-> "search", st |-> "done", resp |-> resp.kind,
                                      items |-> googleSearch(resp).items]],
                                   rLimit)} :
                   /\ rSearch' = search
                   /\ IF AllDone(search)
                        THEN \E results \in {Flat(search)} :
                               /\ rResults' = results
                               /\ rSources' = SourcesOf(results)
                               /\ rTasks' = StartQueued(ExtractionTasks(results), rLimit)
                               /\ rpc' = IF results = <<>> THEN "done" ELSE "extract"
                               /\ rRecord' = IF results = <<>> THEN RunRecord(<<>>, <<>>)
                                                              ELSE NoRecord
                        ELSE /\ UNCHANGED <<rResults, rSources, rTasks, rRecord>>
                             /\ rpc' = "search"
  /\ UNCHANGED <<rLimit, rQuery, notRunVars>>

\* the task after the answer resp to its page request
AfterFetch(task, resp) ==
  LET step == enhancedWebScrape(task.url, task.attempt, resp)
  IN IF step.next = "request"
       THEN [task EXCEPT !.attempt = step.attempt]
     ELSE IF step.content > 0 /\ step.content >= MinContent
       THEN [task EXCEPT !.st = "llm", !.attempt = 0, !.content = step.content]
     ELSE [task EXCEPT !.st = "done", !.attempt = 0]

\* a page request of an extraction task is answered
FetchRespond ==
  /\ rpc = "extract"
  /\ \E t \in 1..Len(rTasks), resp \in ScrapeResponses :
       /\ rTasks[t].st = "fetch"
       /\ \E tasks \in {StartQueued([rTasks EXCEPT ![t] = AfterFetch(rTasks[t], resp)], rLimit)} :
            /\ rTasks' = tasks
            /\ rRecord' = Settle(tasks, rSources)
            /\ rpc' = IF AllDone(tasks) THEN "done" ELSE "extract"
  /\ UNCHANGED <<rLimit, rQuery, rSearch, rResults, rSources, notRunVars>>

\* generateObject of an extraction task is answered
ExtractRespond ==
  /\ rpc = "extract"
  /\ \E t \in 1..Len(rTasks), llm \in LlmResponses :
       /\ rTasks[t].st = "llm"
       /\ \E tasks \in {StartQueued([rTasks EXCEPT ![t] =
                           [rTasks[t] EXCEPT
                              !.st = "done", !.llm = <<llm>>, !.content = NullContent,
                              !.out = extractMedicalInfo(rTasks[t].content, rTasks[t].url,
                                                         rQuery, llm)]],
                         rLimit)} :
            /\ rTasks' = tasks
            /\ rRecord' = Settle(tasks, rSources)
            /\ rpc' = IF AllDone(tasks) THEN "done" ELSE "extract"
  /\ UNCHANGED <<rLimit, rQuery, rSearch, rResults, rSources, notRunVars>>

RunNext ==
  \/ GenerateQueries
  \/ SearchRespond
  \/ FetchRespond
  \/ ExtractRespond

InitRun == RunInit /\ NpiIdle /\ VerIdle /\ AggIdle /\ ScrapeIdle /\ FinderIdle /\ XIdle

SpecRun == InitRun /\ [][RunNext]_vars

\* every request the environment is asked is answered in the end
SpecRunFair == SpecRun /\ WF_vars(RunNext)

\* outbound requests in flight: search requests, page requests and
\* generateObject calls of the tasks handed to the limiter
InFlight ==
  Cardinality({i \in 1..Len(rSearch) : rSearch[i].st = "active"})
  + Cardinality({t \in 1..Len(rTasks) : rTasks[t].st \in {"fetch", "llm"}})

\* C11: during a run, the requests in flight of the search phase and of the
\* fetch/extract phase together never exceed the configured concurrency limit
C11_SharedLimiter ==
  rpc \in {"start", "search", "extract", "done"} => InFlight <= rLimit

\* the limiter is full and holds an extraction task back
C11_Witness ==
  /\ rpc = "extract"
  /\ InFlight = rLimit
  /\ \E t \in 1..Len(rTasks) : rTasks[t].st = "queued"

\* C12: within one run each distinct URL is handed to the fetcher at most
\* once, even when several queries return it
C12_UrlFetchedOnce ==
  \A i, j \in 1..Len(rTasks) : rTasks[i].url = rTasks[j].url => i = j

\* the extractions that survived
Survivors == {rTasks[t].out : t \in {u \in 1..Len(rTasks) : rTasks[u].out # NULL}}

\* a finished run has processed every unit and returned a record built from
\* the surviving extractions only, the not-found record when there is none
RunSettled ==
  /\ rpc # "aborted"
  /\ rpc = "done" =>
       /\ AllDone(rSearch) /\ AllDone(rTasks)
       /\ rRecord # NoRecord
       /\ Range(rRecord.info.extractions) = Survivors
       /\ Survivors = {} => (rRecord.info.confidence_score = 0 /\ AllSentinel(rRecord.info))

\* C13: a failed search query, page fetch or extraction never aborts the run:
\* it contributes no evidence, the other units are processed and the run
\* returns a record, the zero-confidence not-found record if nothing survives
C13_FailureNonFatal == []RunSettled /\ <>(rpc = "done")

\* a run that ended with a record of positive confidence although one of
\* its search queries failed
C13_Witness ==
  /\ rpc = "done"
  /\ \E i \in 1..Len(rSearch) : rSearch[i].resp \in {"throw", "notOk"}
  /\ rRecord.info.confidence_score > 0

(***************************************************************************)
(* One call of enhancedWebScrape                                           *)
(***************************************************************************)
NotReturned == 0 - 2

ScrapeInit ==
  /\ spc = "call"
  /\ sUrl \in RunUrls
  /\ sSent = <<>>
  /\ sSeen = <<>>
  /\ sReturn = NotReturned

\* the first pass of the loop sends the request with userAgents[0]
ScrapeBegin ==
  /\ spc = "call"
  /\ spc' = "fetching"
  /\ sSent' = <<0>>
  /\ UNCHANGED <<sUrl, sSeen, sReturn, notScrapeVars>>

\* the request in flight is answered
ScrapeRespond ==
  /\ spc = "fetching"
  /\ \E resp \in ScrapeResponses :
       \E step \in {enhancedWebScrape(sUrl, sSent[Len(sSent)], resp)} :
         /\ sSeen' = Append(sSeen, resp)
         /\ IF step.next = "request"
              THEN /\ sSent' = Append(sSent, step.attempt)
                   /\ UNCHANGED <<spc, sReturn>>
              ELSE /\ spc' = "returned"
                   /\ sReturn' = step.content
                   /\ UNCHANGED sSent
  /\ UNCHANGED <<sUrl, notScrapeVars>>

ScrapeNext ==
  \/ ScrapeBegin
  \/ ScrapeRespond

InitScrape == ScrapeInit /\ NpiIdle /\ VerIdle /\ AggIdle /\ RunIdle /\ FinderIdle /\ XIdle

SpecScrape == InitScrape /\ [][ScrapeNext]_vars

\* a response that is not a success, a thrown error or an empty body
FailedAnswer(resp) == resp.kind \in {"throw", "notOk"} \/ resp.len = 0

\* C14: the requests of one fetch go out under the identities in their fixed
\* order, one request each and never more than 3; after a response that is
\* not a success, a thrown error or an empty body the next identity is tried
\* while one is left; the call ends with a text or the failure value
C14_FetchIdentities ==
  /\ Len(sSent) <= 3
  /\ \A i \in 1..Len(sSent) : sSent[i] = i - 1
  /\ \A i \in 1..Len(sSeen) : (FailedAnswer(sSeen[i]) /\ i < 3) => Len(sSent) > i
  /\ spc \in {"idle", "call", "fetching", "returned"}
  /\ spc = "returned" => (sReturn = NullContent \/ sReturn >= 0)
  /\ spc = "fetching" => Len(sSent) = Len(sSeen) + 1

\* all three identities were used: the first was refused, the second got an
\* empty body and the third got the text
C14_Witness ==
  /\ spc = "returned"
  /\ Len(sSent) = 3
  /\ sSeen[1].kind = "notOk"
  /\ sSeen[2].kind = "ok" /\ sSeen[2].len = 0
  /\ sReturn > 0

(***************************************************************************)
(* Social media and website finder (findDoctorSocialMedia)                 *)
(***************************************************************************)
determinePlatformType(url, title, description) ==
  LET urlLower == toLowerCase(url)
      contentLower == toLowerCase(title \o <<" ">> \o description)
  IN IF includes(urlLower, <<"l", "i", "n", "k", "e", "d", "i", "n", ".", "c", "o", "m">>) THEN "linkedin"
     ELSE IF \/ includes(urlLower, <<"r", "e", "s", "e", "a", "r", "c", "h", "g", "a", "t", "e", ".", "n", "e", "t">>)
             \/ includes(urlLower, <<"s", "c", "h", "o", "l", "a", "r", ".", "g", "o", "o", "g", "l", "e">>)
             \/ includes(urlLower, <<"o", "r", "c", "i", "d", ".", "o", "r", "g">>) THEN "research_profile"
     ELSE IF \/ includes(contentLower, <<"f", "a", "c", "u", "l", "t", "y">>)
             \/ includes(contentLower, <<"p", "r", "o", "f", "e", "s", "s", "o", "r">>)
             \/ includes(urlLower, <<"e", "d", "u">>) THEN "faculty_page"
     ELSE IF \/ includes(contentLower, <<"p", "r", "a", "c", "t", "i", "c", "e">>)
             \/ includes(contentLower, <<"c", "l", "i", "n", "i", "c">>)
             \/ includes(contentLower, <<"m", "e", "d", "i", "c", "a", "l", " ", "g", "r", "o", "u", "p">>) THEN "practice_website"
     ELSE IF /\ includes(urlLower, <<"w", "w", "w", ".">>)
             /\ ~includes(urlLower, <<"l", "i", "n", "k", "e", "d", "i", "n">>)
             /\ ~includes(urlLower, <<"f", "a", "c", "e", "b", "o", "o", "k">>)
             /\ ~includes(urlLower, <<"t", "w", "i", "t", "t", "e", "r">>) THEN "personal_website"
     ELSE "other"

\* validation.score >= 0.5
IncludeThreshold == 50

\* targetedSearchQueries.length
TargetedQueries == 5

\* searchQueries.length without and with the institution-specific searches
BroadQueries == 12

InstitutionQueries == 17

\* results.length > 5, slice(0, 8), slice(0, 2)
FilterAbove == 5

KeepInstitution == 8

KeepOther == 2

\* validation.factors.some(factor => factor.toLowerCase().includes(...)) for
\* the labels the factor strings start with
HasFactor(factors, labels) == \E i \in 1..Len(factors) : factors[i].factor \in labels

\* performTargetedSearch: the test a verified result has to pass to be pushed
TargetedIncludes(result, validation) ==
  LET platformType == determinePlatformType(result.link, result.title, result.snippet)
      directory == \/ includes(result.link, <<"/", "p", "u", "b", "/", "d", "i", "r", "/">>)
                   \/ includes(result.link, <<"/", "d", "i", "r", "e", "c", "t", "o", "r", "y", "/">>)
                   \/ includes(result.link, <<"p", "r", "o", "f", "i", "l", "e", "s", " ", "|", " ", "L", "i", "n", "k", "e", "d", "I", "n">>)
                   \/ includes(result.title, <<"p", "r", "o", "f", "i", "l", "e", "s", " ", "|", " ", "L", "i", "n", "k", "e", "d", "I", "n">>)
                   \/ (includes(result.title, <<"\"">>) /\ includes(result.title, <<"p", "r", "o", "f", "i", "l", "e", "s">>))
  IN /\ ~NumLess(validation.score, Decimal(IncludeThreshold))
     /\ HasFactor(validation.factors,
                  {"X username match", "Strong institution match", "Complete name match"})
     /\ \/ platformType = "faculty_page"
        \/ (platformType = "linkedin" /\ ~directory /\ includes(result.link, <<"/", "i", "n", "/">>))

\* variant: every result with a score above 0 is pushed
BroadIncludes_m(result, validation) == NumLess(Num(0), validation.score)

\* performBroadSearch: the test a verified result has to pass to be pushed
BroadIncludes(result, validation) ==
  ~NumLess(validation.score, Decimal(IncludeThreshold))

SocialMediaResult(result, validation) ==
  [platform |-> determinePlatformType(result.link, result.title, result.snippet),
   url |-> result.link,
   title |-> result.title,
   description |-> result.snippet,
   verification_score |-> validation.score,
   verification_factors |-> validation.factors]

\* for (const result of searchResults): acc holds seenUrls and results
RECURSIVE ScanResults(_, _, _)
ScanResults(items, acc, query) ==
  IF items = <<>> THEN acc
  ELSE IF Head(items).link \in acc.seen THEN ScanResults(Tail(items), acc, query)
  ELSE \* the verification of the result and the decision to push it
       ScanResults(Tail(items),
                   The({[seen |-> acc.seen \cup {Head(items).link},
                         results |-> IF (IF Truthy(query.x_username)
                                           THEN TargetedIncludes(Head(items), validation)
                                           ELSE BroadIncludes(Head(items), validation))
                                       THEN Append(acc.results,
                                                   SocialMediaResult(Head(items), validation))
                                       ELSE acc.results] :
                          validation \in {verifyPersonMatch(Head(items), query.name,
                                            query.specialty, query.institution,
                                            query.x_username)}}),
                   query)

\* findDoctorSocialMedia: the number of searches of the mode chosen
NumSearchQueries(query) ==
  IF Truthy(query.x_username) THEN TargetedQueries
  ELSE IF Truthy(query.institution) THEN InstitutionQueries
  ELSE BroadQueries

\* results.sort((a, b) => b.verification_score - a.verification_score): the
\* difference of two doubles has the sign of their comparison, and the key
\* of a result is the number of results with a smaller score
SortByScore(results) ==
  LET n == Len(results)
      smaller(i) == {j \in 1..n : NumLess(results[j].verification_score,
                                          results[i].verification_score)}
  IN StableSortDesc(results, [i \in 1..n |-> Cardinality(smaller(i))])

\* performBroadSearch: with an institution and more than five results, the
\* top institution matches and the top two others
FilterByInstitution(sorted, query) ==
  LET labels == {"Strong institution match", "Partial institution match"}
      inst == {r \in Range(sorted) : HasFactor(r.verification_factors, labels)}
      institutionResults == filterBy(sorted, inst)
      nonInstitutionResults == filterBy(sorted, Range(sorted) \ inst)
  IN IF Truthy(query.institution) /\ Len(sorted) > FilterAbove
       THEN SortByScore(SubSeq(institutionResults, 1,
                               Min(KeepInstitution, Len(institutionResults)))
                        \o SubSeq(nonInstitutionResults, 1,
                                  Min(KeepOther, Len(nonInstitutionResults))))
       ELSE sorted

\* results.reduce((sum, r) => sum + r.verification_score, 0), the scores
\* being added to sum from the first to the last
RECURSIVE SumScores(_, _)
SumScores(results, sum) ==
  IF results = <<>> THEN sum
  ELSE SumScores(Tail(results), NumAdd(sum, Head(results).verification_score))

\* the SocialMediaFinder returned; confidence_score is Math.min(avgScore, 1.0)
FinderRecord(query, results) ==
  LET final == CHOOSE f \in {IF Truthy(query.x_username) THEN SortByScore(results)
                             ELSE FilterByInstitution(SortByScore(results), query)} : TRUE
      n == Len(final)
  IN [doctor_name |-> query.name,
      specialty |-> OrElse(query.specialty, NotSpecified),
      results |-> final,
      total_found |-> n,
      confidence_score |-> IF n = 0 THEN MathMin(Num(0), Num(1))
                           ELSE MathMin(NumOver(SumScores(final, Num(0)), n), Num(1))]

\* the largest number of items in one answer of the search provider
MaxItems == 2

\* the search results the provider may return
FinderItems ==
  {[link |-> <<"l", "i", "n", "k", "e", "d", "i", "n", ".", "c", "o", "m", "/", "i", "n", "/", "a", "n", "n", "l", "e", "e">>,
    title |-> <<"D", "r", ".", " ", "A", "n", "n", " ", "L", "e", "e", " ", "M", "D">>,
    snippet |-> <<"c", "a", "r", "d", "i", "o", "l", "o", "g", "y", " ", "a", "t", " ", "m", "e", "r", "c", "y", " ", "h", "o", "s", "p", "i", "t", "a", "l">>],
   [link |-> <<"m", "e", "r", "c", "y", ".", "e", "d", "u", "/", "l", "e", "e">>,
    title |-> <<"a", "n", "n", " ", "l", "e", "e">>,
    snippet |-> <<>>],
   [link |-> <<"w", "w", "w", ".", "b", "o", "b", "r", "o", "s", "s", ".", "c", "o", "m">>,
    title |-> <<"B", "o", "b", " ", "R", "o", "s", "s">>,
    snippet |-> <<"p", "a", "i", "n", "t", "e", "r">>],
   [link |-> <<"l", "i", "n", "k", "e", "d", "i", "n", ".", "c", "o", "m", "/", "p", "u", "b", "/", "d", "i", "r", "/", "a", "n", "n", "/", "l", "e", "e">>,
    title |-> <<"A", "n", "n", " ", "L", "e", "e", " ", "M", "D">>,
    snippet |-> <<"p", "r", "o", "f", "i", "l", "e", "s">>]}

FinderQueries ==
  [name : {<<"a", "n", "n", " ", "l", "e", "e">>},
   specialty : {<<"C", "a", "r", "d", "i", "o", "l", "o", "g", "y">>},
   institution : {UNDEFINED, <<"M", "e", "r", "c", "y", " ", "H", "o", "s", "p", "i", "t", "a", "l">>},
   x_username : {UNDEFINED, <<"a", "n", "n", "l", "e", "e">>}]

FinderResponses ==
  {[kind |-> "throw"], [kind |-> "notOk"], [kind |-> "ok", hasItems |-> FALSE]}
  \cup {[kind |-> "ok", hasItems |-> TRUE, items |-> items] :
          items \in UNION {[1..n -> FinderItems] : n \in 1..MaxItems}}

FinderInit ==
  /\ fpc = "start"
  /\ fQuery \in FinderQueries
  /\ fLeft = 0
  /\ fSeen = {}
  /\ fResults = <<>>
  /\ fReturn = NoRecord

\* findDoctorSocialMedia: the mode is chosen and the searches are listed
FindStart ==
  /\ fpc = "start"
  /\ fLeft' = NumSearchQueries(fQuery)
  /\ fpc' = "search"
  /\ UNCHANGED <<fQuery, fSeen, fResults, fReturn, notFinderVars>>

\* one pass of for (const searchQuery of searchQueries): the search is
\* answered and its results are verified; after the last pass the results
\* are sorted, filtered and returned
FinderRespond ==
  /\ fpc = "search"
  /\ \E resp \in FinderResponses :
       \E acc \in {IF googleSearch(resp).threw
                     THEN [seen |-> fSeen, results |-> fResults]
                     ELSE ScanResults(googleSearch(resp).items,
                                      [seen |-> fSeen, results |-> fResults], fQuery)} :
         /\ fSeen' = acc.seen
         /\ fResults' = acc.results
         /\ fLeft' = fLeft - 1
         /\ fpc' = IF fLeft = 1 THEN "done" ELSE "search"
         /\ fReturn' = IF fLeft = 1 THEN FinderRecord(fQuery, acc.results) ELSE NoRecord
  /\ UNCHANGED <<fQuery, notFinderVars>>

FinderNext == FindStart \/ FinderRespond

InitFinder == FinderInit /\ NpiIdle /\ VerIdle /\ AggIdle /\ RunIdle /\ ScrapeIdle /\ XIdle

SpecFinder == InitFinder /\ [][FinderNext]_vars

\* a research run or a finder call
InitScreen == InitRun \/ InitFinder

ScreenNext == RunNext \/ FinderNext

SpecScreen == InitScreen /\ [][ScreenNext]_vars

\* the item of the provider a seen link belongs to
ItemOf(link) == CHOOSE item \in FinderItems : item.link = link

ScoreOf(item) ==
  verifyPersonMatch(item, fQuery.name, fQuery.specialty, fQuery.institution,
                    fQuery.x_username).score

\* the answer of generateObject an extraction task ended with passed the
\* name test of extractMedicalInfo
PassedNameCheck(task) ==
  /\ Len(task.llm) = 1
  /\ task.llm[1].kind = "object"
  /\ Truthy(task.llm[1].object.doctor_name)
  /\ task.llm[1].object.doctor_name # NotFound
  /\ NameCheck(task.llm[1].object.doctor_name, rQuery.name)

\* C20: every result the finder returns was verified with a score of at
\* least 0.5 and no seen result with a lower score is returned; the research
\* run aggregates only extractions whose extracted name passed the name test
\* against the query, so a source without an extracted name adds nothing
C20_NoRejectedContributes ==
  /\ fpc = "done" =>
       /\ \A i \in 1..Len(fReturn.results) :
            /\ fReturn.results[i].url \in fSeen
            /\ ~NumLess(fReturn.results[i].verification_score, Decimal(50))
            /\ fReturn.results[i].verification_score = ScoreOf(ItemOf(fReturn.results[i].url))
       /\ \A link \in fSeen :
            NumLess(ScoreOf(ItemOf(link)), Decimal(50)) =>
              \A i \in 1..Len(fReturn.results) : fReturn.results[i].url # link
  /\ rpc = "done" =>
       /\ \A t \in 1..Len(rTasks) : rTasks[t].out # NULL => PassedNameCheck(rTasks[t])
       /\ rRecord.info = aggregateDoctorInfo(Compact(rTasks))
       /\ \A i \in 1..Len(Compact(rTasks)) :
            \E t \in 1..Len(rTasks) :
              PassedNameCheck(rTasks[t]) /\ Compact(rTasks)[i] = rTasks[t].out

\* a finder call that returned a result and left out a seen one with a
\* score between 0 and 0.5
C20_Witness ==
  /\ fpc = "done"
  /\ Len(fReturn.results) > 0
  /\ \E link \in fSeen : /\ NumLess(Num(0), ScoreOf(ItemOf(link)))
                          /\ NumLess(ScoreOf(ItemOf(link)), Decimal(50))

\* a research run in which a page of a known institution gave no name and
\* another extraction was aggregated
C20_WitnessRun ==
  /\ rpc = "done"
  /\ \E t \in 1..Len(rTasks) :
       /\ Len(rTasks[t].llm) = 1
       /\ rTasks[t].llm[1].kind = "object"
       /\ rTasks[t].llm[1].object.doctor_name = NotFound
       /\ Truthy(extractWorkplaceFromUrl(rTasks[t].url))
       /\ rTasks[t].out = NULL
  /\ Compact(rTasks) # <<>>

(***************************************************************************)
(* analyzeXProfile (medical-core.ts)                                       *)
(*                                                                         *)
(* A scraped text is the string the scraper returned.  A property whose    *)
(* value is undefined is a field the record does not have.  A reasoning    *)
(* text is written by its opening words.                                   *)
(***************************************************************************)
\* obj.name of a JavaScript object: undefined when the property is missing
HasProperty(obj, name) == name \in DOMAIN obj

\* normalizeXUsername: username.replace(/^@/, '')
normalizeXUsername(username) ==
  IF username # <<>> /\ Head(username) = "@" THEN Tail(username) ELSE username

constructXProfileURL(username) == <<"h", "t", "t", "p", "s", ":", "/", "/", "x", ".", "c", "o", "m", "/">> \o normalizeXUsername(username)

\* url.split('/').pop()
RECURSIVE lastSegment(_)
lastSegment(url) ==
  IF url = <<>> THEN <<>>
  ELSE IF url[Len(url)] = "/" THEN <<>>
  ELSE Append(lastSegment(SubSeq(url, 1, Len(url) - 1)), url[Len(url)])

\* scrapeXProfile: content.length > 100
DirectMinLength == 100

JsDisabledNotice == <<"J", "a", "v", "a", "S", "c", "r", "i", "p", "t", " ", "i", "s", " ", "n", "o", "t", " ", "a", "v", "a", "i", "l", "a", "b", "l", "e">>

\* scrapeXProfile, given what scrapeXProfileDirect and scrapeXProfileAlternative returned
scrapeXProfile(username, content, alternativeContent) ==
  LET profileUrl == constructXProfileURL(username)
  IN IF /\ content # NULL
        /\ content # <<>>
        /\ Len(content) > DirectMinLength
        /\ ~includes(content, JsDisabledNotice)
     THEN [url |-> profileUrl, content |-> content, username |-> normalizeXUsername(username)]
     ELSE IF alternativeContent # NULL /\ alternativeContent # <<>>
     THEN [url |-> profileUrl, content |-> alternativeContent,
           username |-> normalizeXUsername(username)]
     ELSE NULL

\* classifyXProfile: const institutionalKeywords
institutionalKeywords ==
  << <<"l", "a", "b">>, <<"l", "a", "b", "o", "r", "a", "t", "o", "r", "y">>, <<"c", "e", "n", "t", "e", "r">>, <<"c", "e", "n", "t", "r", "e">>, <<"i", "n", "s", "t", "i", "t", "u", "t", "e">>, <<"h", "o", "s", "p", "i", "t", "a", "l">>,
     <<"c", "l", "i", "n", "i", "c">>, <<"d", "e", "p", "t">>, <<"d", "e", "p", "a", "r", "t", "m", "e", "n", "t">>, <<"r", "e", "s", "e", "a", "r", "c", "h">>, <<"g", "r", "o", "u", "p">>, <<"t", "e", "a", "m">> >>

\* classifyXProfile: const organizationalPatterns
organizationalPatterns ==
  << <<"w", "e", " ", "a", "r", "e">>, <<"o", "u", "r", " ", "t", "e", "a", "m">>, <<"o", "u", "r", " ", "r", "e", "s", "e", "a", "r", "c", "h">>, <<"o", "u", "r", " ", "m", "i", "s", "s", "i", "o", "n">>, <<"o", "u", "r", " ", "l", "a", "b">>,
     <<"o", "u", "r", " ", "g", "r", "o", "u", "p">>, <<"o", "u", "r", " ", "c", "e", "n", "t", "e", "r">> >>

\* classifyXProfile: the confidence of the rule-based classification, in hundredths
RuleConfidence == 95

\* classifyXProfile: the pre-classification of obvious institutional accounts applies
IsObviousInstitution(profileData) ==
  \E username \in {toLowerCase(lastSegment(profileData.url))} :
  \E content \in {toLowerCase(profileData.content)} :
    /\ \E i \in 1..Len(institutionalKeywords) : includes(username, institutionalKeywords[i])
    /\ \/ \E i \in 1..Len(organizationalPatterns) : includes(content, organizationalPatterns[i])
       \/ includes(content, <<"r", "e", "s", "e", "a", "r", "c", "h">>)
       \/ includes(content, <<"l", "a", "b", "o", "r", "a", "t", "o", "r", "y">>)

\* extracted_bio: content.substring(0, 200)
BioLength == 200

\* classifyXProfile, given what generateObject did: llm is [kind |-> "object", object]
\* or [kind |-> "throw"]
classifyXProfile(profileData, llm) ==
  IF IsObviousInstitution(profileData)
  THEN [classification |-> "institution",
        confidence_score |-> RuleConfidence,
        reasoning |-> "Username contains institutional keywords",
        extracted_name |-> <<>>,
        extracted_bio |-> substring(toLowerCase(profileData.content), 0, BioLength)]
  ELSE IF llm.kind = "object" THEN llm.object
  ELSE [classification |-> "neither",
        confidence |-> 0,
        reasoning |-> "Error occurred during classification",
        extracted_name |-> <<>>,
        extracted_bio |-> <<>>]

\* twitter_id: twitterId || undefined
WithTwitterId(record, twitterId) ==
  IF twitterId # NULL /\ twitterId # <<>>
  THEN record @@ [twitter_id |-> twitterId]
  ELSE record

\* analyzeXProfile: the return of the branch !enhancedContent
NoContentResult(username, twitterId) ==
  WithTwitterId([username |-> username,
                 profile_url |-> constructXProfileURL(username),
                 classification |-> "neither",
                 confidence_score |-> 0,
                 reasoning |-> "Could not access or scrape X profile content"],
                twitterId)

\* analyzeXProfile: the return of the catch block
ErrorResult(username) ==
  [username |-> username,
   profile_url |-> constructXProfileURL(username),
   classification |-> "neither",
   confidence_score |-> 0,
   reasoning |-> "Error during analysis"]

\* analyzeXProfile: const analysis (confidence_score: classification.confidence)
Analysis(username, twitterId, classification) ==
  WithTwitterId(
    [username |-> username,
     profile_url |-> constructXProfileURL(username),
     classification |-> classification.classification,
     reasoning |-> classification.reasoning,
     profile_data |-> [display_name |-> classification.extracted_name,
                       bio |-> classification.extracted_bio]]
    @@ (IF HasProperty(classification, "confidence")
        THEN [confidence_score |-> classification.confidence]
        ELSE <<>>),
    twitterId)

\* analyzeXProfile: content.length < 50
UsableLength == 50

\* analyzeXProfile: !profileData || !profileData.content || profileData.content.length < 50
NeedsFallback(profileData) ==
  \/ profileData = NULL
  \/ profileData.content = <<>>
  \/ Len(profileData.content) < UsableLength

\* user names typed at the prompt
XUsernames == { <<>>, <<" ">>, <<"@", "M", "a", "y", "o", "L", "a", "b">>, <<" ", "d", "r", "s", "m", "i", "t", "h", " ">>, <<"H", "e", "a", "r", "t", "C", "l", "i", "n", "i", "c">> }

\* lookupTwitterId: null, or the digits matched by /ID[:\s]*(\d{10,20})/i or
\* /(\d{15,20})/ in a search result, which pass /^\d{10,20}$/
TwitterIds ==
  {NULL,
   <<"1", "2", "3", "4", "5", "6", "7", "8", "9", "0">>,
   <<"1", "2", "3", "4", "5", "6", "7", "8", "9", "0", "1", "2", "3", "4", "5", "6", "7", "8",
     "9", "0">>}

\* scrapeXProfileDirect: null, or the text of extractXProfileFromHTML (longer than 20),
\* lines "Display Name: ..." and "Bio: ..." taken from the page
DirectContents ==
  {NULL,
   <<"D", "i", "s", "p", "l", "a", "y", " ", "N", "a", "m", "e", ":", " ", "D", "r", " ", "S",
     "m", "i", "t", "h", "\n", "B", "i", "o", ":", " ", "C", "a", "r", "d", "i", "o", "l", "o",
     "g", "i", "s", "t", "\n">>,
   <<"B", "i", "o", ":", " ", "J", "a", "v", "a", "S", "c", "r", "i", "p", "t", " ", "i", "s",
     " ", "n", "o", "t", " ", "a", "v", "a", "i", "l", "a", "b", "l", "e", ".", " ", "W", "e",
     " ", "h", "a", "v", "e", " ", "d", "e", "t", "e", "c", "t", "e", "d", " ", "t", "h", "a",
     "t", " ", "J", "a", "v", "a", "S", "c", "r", "i", "p", "t", " ", "i", "s", " ", "d", "i",
     "s", "a", "b", "l", "e", "d", " ", "i", "n", " ", "t", "h", "i", "s", " ", "b", "r", "o",
     "w", "s", "e", "r", ".", " ", "P", "l", "e", "a", "s", "e", " ", "e", "n", "a", "b", "l",
     "e", " ", "J", "a", "v", "a", "S", "c", "r", "i", "p", "t", ".", "\n">>,
   <<"D", "i", "s", "p", "l", "a", "y", " ", "N", "a", "m", "e", ":", " ", "D", "r", " ", "S",
     "m", "i", "t", "h", " ", "(", "@", "d", "r", "s", "m", "i", "t", "h", ")", "\n", "B", "i",
     "o", ":", " ", "C", "a", "r", "d", "i", "o", "l", "o", "g", "i", "s", "t", " ", "a", "t",
     " ", "M", "e", "r", "c", "y", " ", "H", "o", "s", "p", "i", "t", "a", "l", ".", " ", "N",
     "o", "t", "e", "s", " ", "o", "n", " ", "h", "e", "a", "r", "t", " ", "h", "e", "a", "l",
     "t", "h", " ", "a", "n", "d", " ", "p", "r", "e", "v", "e", "n", "t", "i", "o", "n", ".",
     " ", "V", "i", "e", "w", "s", " ", "m", "y", " ", "o", "w", "n", ".", "\n">>,
   <<"D", "i", "s", "p", "l", "a", "y", " ", "N", "a", "m", "e", ":", " ", "H", "e", "a", "r",
     "t", " ", "C", "l", "i", "n", "i", "c", "\n", "B", "i", "o", ":", " ", "W", "e", " ", "a",
     "r", "e", " ", "a", " ", "h", "e", "a", "r", "t", " ", "c", "l", "i", "n", "i", "c", " ",
     "c", "a", "r", "i", "n", "g", " ", "f", "o", "r", " ", "p", "a", "t", "i", "e", "n", "t",
     "s", " ", "w", "i", "t", "h", " ", "h", "e", "a", "r", "t", " ", "d", "i", "s", "e", "a",
     "s", "e", " ", "i", "n", " ", "S", "p", "r", "i", "n", "g", "f", "i", "e", "l", "d", " ",
     "s", "i", "n", "c", "e", " ", "1", "9", "9", "0", ".", "\n">>}

\* allProfileInfo.length > 100
AlternativeMinLength == 100

\* scrapeXProfileAlternative: the results (link, title, snippet) of the additional
\* queries that hold a medical keyword, in the order found
AlternativeFindings ==
  {<<>>,
   << << <<"h", "t", "t", "p", "s", ":", "/", "/", "m", "e", "d", ".", "e", "x", "a", "m", "p",
          "l", "e", ".", "e", "d", "u", "/", "f", "a", "c", "u", "l", "t", "y">>,
        <<"F", "a", "c", "u", "l", "t", "y", " ", "D", "i", "r", "e", "c", "t", "o", "r", "y">>,
        <<"D", "r", " ", "S", "m", "i", "t", "h", " ", "i", "s", " ", "a", " ", "p", "h", "y",
          "s", "i", "c", "i", "a", "n", " ", "a", "n", "d", " ", "p", "r", "o", "f", "e", "s",
          "s", "o", "r", " ", "o", "f", " ", "c", "a", "r", "d", "i", "o", "l", "o", "g", "y",
          " ", "a", "t", " ", "M", "e", "r", "c", "y", ".">> >> >>,
   << << <<"h", "t", "t", "p", "s", ":", "/", "/", "h", "e", "a", "r", "t", ".", "e", "x", "a",
          "m", "p", "l", "e", ".", "o", "r", "g", "/", "a", "b", "o", "u", "t">>,
        <<"A", "b", "o", "u", "t", " ", "t", "h", "e", " ", "H", "e", "a", "r", "t", " ", "C",
          "l", "i", "n", "i", "c">>,
        <<"O", "u", "r", " ", "r", "e", "s", "e", "a", "r", "c", "h", " ", "t", "e", "a", "m",
          " ", "s", "t", "u", "d", "i", "e", "s", " ", "c", "a", "r", "d", "i", "a", "c", " ",
          "i", "m", "a", "g", "i", "n", "g", ".">> >> >>,
   << << <<"h", "t", "t", "p", "s", ":", "/", "/", "h", "e", "a", "r", "t", ".", "e", "x", "a",
          "m", "p", "l", "e", ".", "o", "r", "g", "/", "a", "b", "o", "u", "t">>,
        <<"A", "b", "o", "u", "t", " ", "t", "h", "e", " ", "H", "e", "a", "r", "t", " ", "C",
          "l", "i", "n", "i", "c">>,
        <<"O", "u", "r", " ", "r", "e", "s", "e", "a", "r", "c", "h", " ", "t", "e", "a", "m",
          " ", "s", "t", "u", "d", "i", "e", "s", " ", "c", "a", "r", "d", "i", "a", "c", " ",
          "i", "m", "a", "g", "i", "n", "g", ".">> >>,
      << <<"h", "t", "t", "p", "s", ":", "/", "/", "h", "e", "a", "r", "t", ".", "e", "x", "a",
          "m", "p", "l", "e", ".", "o", "r", "g", "/", "l", "a", "b">>,
        <<"C", "a", "r", "d", "i", "a", "c", " ", "I", "m", "a", "g", "i", "n", "g", " ", "L",
          "a", "b">>,
        <<"T", "h", "e", " ", "l", "a", "b", "o", "r", "a", "t", "o", "r", "y", " ", "i", "s",
          " ", "p", "a", "r", "t", " ", "o", "f", " ", "t", "h", "e", " ", "d", "e", "p", "a",
          "r", "t", "m", "e", "n", "t", " ", "o", "f", " ", "m", "e", "d", "i", "c", "a", "l",
          " ", "p", "h", "y", "s", "i", "c", "s", ".">> >> >>}

\* scrapeXProfileAlternative: allProfileInfo after the additional queries, three
\* lines for each finding whose title or snippet holds a medical keyword
RECURSIVE allProfileInfo(_)
allProfileInfo(findings) ==
  IF findings = <<>> THEN <<>>
  ELSE <<"A", "d", "d", "i", "t", "i", "o", "n", "a", "l", " ", "S", "o", "u", "r", "c", "e", ":", " ">>
       \o findings[1][1] \o <<"\n">>
       \o <<"T", "i", "t", "l", "e", ":", " ">> \o findings[1][2] \o <<"\n">>
       \o <<"C", "o", "n", "t", "e", "n", "t", ":", " ">> \o findings[1][3] \o <<"\n", "\n">>
       \o allProfileInfo(Tail(findings))

\* scrapeXProfileAlternative: null, or
\* `Profile Information from Multiple Sources:\n${allProfileInfo}` when allProfileInfo
\* is longer than 100 characters
AlternativeContents ==
  {IF Len(allProfileInfo(findings)) > AlternativeMinLength
   THEN <<"P", "r", "o", "f", "i", "l", "e", " ", "I", "n", "f", "o", "r", "m", "a", "t", "i", "o",
          "n", " ", "f", "r", "o", "m", " ", "M", "u", "l", "t", "i", "p", "l", "e", " ", "S", "o",
          "u", "r", "c", "e", "s", ":", "\n">>
        \o allProfileInfo(findings)
   ELSE NULL : findings \in AlternativeFindings}

\* aggregatedContent.length > 100
EnhancedMinLength == 100

\* enhancedXProfileSearch: the three lines added to aggregatedContent for a result
\* whose title or snippet names the user and whose snippet holds a medical keyword
EnhancedSource(username) ==
  <<"E", "n", "h", "a", "n", "c", "e", "d", " ", "S", "o", "u", "r", "c", "e", ":", " ", "h",
    "t", "t", "p", "s", ":", "/", "/", "h", "e", "a", "l", "t", "h", ".", "e", "x", "a", "m",
    "p", "l", "e", ".", "c", "o", "m", "/", "p", "e", "o", "p", "l", "e", "\n", "T", "i", "t",
    "l", "e", ":", " ">>
  \o username \o <<" ", "-", " ", "p", "r", "o", "f", "i", "l", "e", "\n", "C", "o", "n", "t", "e", "n",
       "t", ":", " ">>
  \o username
  \o <<" ", "i", "s", " ", "a", " ", "p", "h", "y", "s", "i", "c", "i", "a", "n", " ", "a",
       "t", " ", "M", "e", "r", "c", "y", " ", "H", "o", "s", "p", "i", "t", "a", "l", " ",
       "i", "n", " ", "S", "p", "r", "i", "n", "g", "f", "i", "e", "l", "d", " ", "a", "n",
       "d", " ", "s", "e", "e", "s", " ", "p", "a", "t", "i", "e", "n", "t", "s", " ", "o",
       "n", " ", "w", "e", "e", "k", "d", "a", "y", "s", ".", "\n", "\n">>

\* enhancedXProfileSearch: null, or
\* `Enhanced Profile Information for @${username}:\n${aggregatedContent}` when
\* aggregatedContent is longer than 100 characters
EnhancedContents(username) ==
  {NULL,
   IF Len(EnhancedSource(username)) > EnhancedMinLength
   THEN <<"E", "n", "h", "a", "n", "c", "e", "d", " ", "P", "r", "o", "f", "i", "l", "e", " ", "I", "n", "f",
          "o", "r", "m", "a", "t", "i", "o", "n", " ", "f", "o", "r", " ", "@">>
        \o username \o <<":", "\n">> \o EnhancedSource(username)
   ELSE NULL}

\* generateObject with XProfileClassificationSchema: an object of the schema, or a throw
XLlmResponses ==
  {[kind |-> "throw"]} \cup
  {[kind |-> "object",
    object |-> [classification |-> c, confidence |-> k,
                reasoning |-> "model reasoning",
                extracted_name |-> <<"D", "r", " ", "S", "m", "i", "t", "h">>, extracted_bio |-> <<"C", "a", "r", "d", "i", "o", "l", "o", "g", "i", "s", "t">>]] :
     c \in {"doctor", "institution", "neither"}, k \in {0, 85, 100}}

XInit == XIdle

\* handleXProfileAnalysis: the prompt is repeated while the answer is blank, then
\* analyzeXProfile is called with { username: username.trim() }
XAnalyze ==
  /\ xpc = "idle"
  /\ \E username \in XUsernames :
       IF trim(username) = <<>>
       THEN UNCHANGED <<xpc, xQuery>>
       ELSE /\ xQuery' = [username |-> trim(username)]
            /\ xpc' = "lookup"
  /\ UNCHANGED <<xTwitterId, xProfile, xEnhanced, xReturn, notXVars>>

\* analyzeXProfile step 1: await lookupTwitterId(username)
XLookupTwitterId ==
  /\ xpc = "lookup"
  /\ \E id \in TwitterIds : xTwitterId' = id
  /\ xpc' = "scrape"
  /\ UNCHANGED <<xQuery, xProfile, xEnhanced, xReturn, notXVars>>

\* analyzeXProfile step 2: await scrapeXProfile(username)
XScrape ==
  /\ xpc = "scrape"
  /\ \E content \in DirectContents, alternativeContent \in AlternativeContents :
       \E profileData \in
            {scrapeXProfile(normalizeXUsername(xQuery.username), content, alternativeContent)} :
         /\ xProfile' = profileData
         /\ xpc' = IF NeedsFallback(profileData) THEN "enhanced" ELSE "classify"
  /\ UNCHANGED <<xQuery, xTwitterId, xEnhanced, xReturn, notXVars>>

\* analyzeXProfile: await enhancedXProfileSearch(username) and the lines after it;
\* profileData.content = enhancedContent throws a TypeError when profileData is null
XEnhancedSearch ==
  /\ xpc = "enhanced"
  /\ \E enhancedContent \in EnhancedContents(normalizeXUsername(xQuery.username)) :
       /\ xEnhanced' = enhancedContent
       /\ IF enhancedContent = NULL
          THEN /\ xReturn' = NoContentResult(normalizeXUsername(xQuery.username), xTwitterId)
               /\ xpc' = "done"
               /\ UNCHANGED xProfile
          ELSE IF xProfile = NULL
          THEN /\ xReturn' = ErrorResult(normalizeXUsername(xQuery.username))
               /\ xpc' = "done"
               /\ UNCHANGED xProfile
          ELSE /\ xProfile' = [xProfile EXCEPT !.content = enhancedContent]
               /\ xpc' = "classify"
               /\ UNCHANGED xReturn
  /\ UNCHANGED <<xQuery, xTwitterId, notXVars>>

\* analyzeXProfile steps 3 and 4: await classifyXProfile(profileData), return analysis
XClassify ==
  /\ xpc = "classify"
  /\ \E llm \in XLlmResponses :
       xReturn' = Analysis(normalizeXUsername(xQuery.username), xTwitterId,
                           classifyXProfile(xProfile, llm))
  /\ xpc' = "done"
  /\ UNCHANGED <<xQuery, xTwitterId, xProfile, xEnhanced, notXVars>>

XNext == XAnalyze \/ XLookupTwitterId \/ XScrape \/ XEnhancedSearch \/ XClassify

InitX == XInit /\ NpiIdle /\ VerIdle /\ AggIdle /\ RunIdle /\ ScrapeIdle /\ FinderIdle

SpecX == InitX /\ [][XNext]_vars

\* the confidence of a finished X-profile analysis is a number of [0, 1]
C22_XProfile ==
  xpc = "done" =>
    (HasProperty(xReturn, "confidence_score") /\ xReturn.confidence_score \in 0..100)

\* the confidence of the record of a finished research run is a number of [0, 1]
C22_Doctor == rpc = "done" => rRecord.info.confidence_score \in 0..100

\* the confidence of a finished finder call is a number of [0, 1]
C22_Finder ==
  fpc = "done" =>
    /\ ~NumLess(fReturn.confidence_score, Num(0))
    /\ ~NumLess(Num(1), fReturn.confidence_score)

\* the confidence of a finished registry lookup is a number of [0, 1]
C22_NPI == pc = "done" /\ ToString(npiResult) # ToString(UNDEFINED) =>
             npiResult.confidence_score \in 0..100

\* C22: every record handed to the caller carries a confidence score that is a
\* defined number between 0 and 1 (0..100 hundredths): the doctor record, the
\* registry lookup, the finder and the X-profile analysis, its rule-based
\* institutional classification and its error results included.
C22_ConfidenceRange == C22_XProfile /\ C22_Doctor /\ C22_Finder /\ C22_NPI

\* C30: when the primary scraping gave no usable content and the enhanced search
\* returned content, the analysis is a classification made from that content and
\* keeps the Twitter ID that was looked up; it is not the error result.
C30_EnhancedFallback ==
  xpc = "done" /\ xEnhanced # NULL =>
    /\ xReturn.reasoning # "Error during analysis"
    /\ xProfile # NULL /\ xProfile.content = xEnhanced
    /\ xTwitterId # NULL =>
         (HasProperty(xReturn, "twitter_id") /\ xReturn.twitter_id = xTwitterId)

\* the URLs of the tasks whose extraction reached the aggregator
SurvivorUrls == {rTasks[t].url : t \in {u \in 1..Len(rTasks) : rTasks[u].out # NULL}}

\* C23: the source list of the record holds no URL twice, holds the URL of every
\* surviving candidate, and holds no URL of a source whose fetch failed or whose
\* extraction was rejected.
C23_SourcesAreSurvivors ==
  rpc = "done" =>
    /\ \A i, j \in 1..Len(rRecord.sources) :
         rRecord.sources[i] = rRecord.sources[j] => i = j
    /\ SurvivorUrls \subseteq Range(rRecord.sources)
    /\ Range(rRecord.sources) \subseteq SurvivorUrls

\* the first two parts of C23 alone
C23_NoDuplicateAndComplete ==
  rpc = "done" =>
    /\ \A i, j \in 1..Len(rRecord.sources) :
         rRecord.sources[i] = rRecord.sources[j] => i = j
    /\ SurvivorUrls \subseteq Range(rRecord.sources)

(***************************************************************************)
(* researchDoctor called with a query DoctorQuerySchema does not accept    *)
(***************************************************************************)
\* DoctorQuerySchema.parse succeeds: name and specialty are strings of min(1)
DoctorQuerySchemaAccepts(doctorQuery) ==
  /\ doctorQuery.name # UNDEFINED /\ Len(doctorQuery.name) >= 1
  /\ doctorQuery.specialty # UNDEFINED /\ Len(doctorQuery.specialty) >= 1

\* an empty name; and { name: doctorName } as handleXProfileAnalysis builds it
MalformedQueries ==
  {[name |-> <<>>, specialty |-> <<"C", "a", "r", "d", "i", "o", "l", "o", "g", "y">>],
   [name |-> <<"J", "a", "n", "e", " ", "D", "o", "e">>, specialty |-> UNDEFINED]}

InitMalformed ==
  /\ rpc = "start"
  /\ rLimit \in 1..MaxConcurrency
  /\ rQuery \in MalformedQueries
  /\ rSearch = <<>>
  /\ rResults = <<>>
  /\ rSources = <<>>
  /\ rTasks = <<>>
  /\ rRecord = NoRecord
  /\ NpiIdle /\ VerIdle /\ AggIdle /\ ScrapeIdle /\ FinderIdle /\ XIdle

SpecMalformed == InitMalformed /\ [][RunNext]_vars

\* C24: a query with an empty name or without a required field is rejected before
\* any network call: no search request and no page request is issued for it.
C24_MalformedRejected ==
  rpc # "idle" /\ ~DoctorQuerySchemaAccepts(rQuery) => (rSearch = <<>> /\ rTasks = <<>>)

\* MedicalExtractionSchema: the enum of source_type
SourceTypes ==
  {"medical_directory", "hospital_website", "academic_profile", "news_article", "other"}

\* a candidate as MedicalExtractionSchema and the specification declare it
WellFormedCandidate(e) ==
  /\ e.confidence \in 0..100
  /\ \A f \in {"doctor_name", "specialty", "workplace", "location"} :
       e[f] # UNDEFINED /\ e[f] # <<>>
  /\ e.source_type \in SourceTypes

\* C26: every candidate handed to the aggregator has a confidence in [0, 1], every
\* declared field present and non-empty, and a source kind of the declared set,
\* the candidates patched from the URL patterns included.
C26_CandidateWellFormed == \A e \in Survivors : WellFormedCandidate(e)

\* C26 without the source kind
C26_FieldsAndConfidence ==
  \A e \in Survivors :
    /\ e.confidence \in 0..100
    /\ \A f \in {"doctor_name", "specialty", "workplace", "location"} :
         e[f] # UNDEFINED /\ e[f] # <<>>

====
